---- MODULE Spec2Model ----
(***************************************************************************)
(* Verification model of the Filesync-Web-UI replication daemon            *)
(* (src/app/filesync.py, src/app/utils.py, src/app/routes.py).             *)
(*                                                                         *)
(* The module holds several specifications over one set of variables:      *)
(*   SpecLane       callers of the copy coordinator, one per config id     *)
(*   Spec           engines sharing copy lanes, with supervisor stop()     *)
(*   SpecSettle     one engine's debounce ticks on a clock                 *)
(*   SpecCopy       copy_backup on one file, at chunk granularity          *)
(*   SpecRetention  the days-mode retention pass                           *)
(* A specification leaves the variables of the other parts at their        *)
(* initial values.                                                         *)
(***************************************************************************)
EXTENDS Integers, Sequences, FiniteSets, TLC

(***************************************************************************)
(* Bounds                                                                  *)
(***************************************************************************)
\* configuration ids calling into the coordinator in SpecLane: 1..NumConfigs
NumConfigs == 3
\* engines running in Spec: their configuration ids are 1..NumEngines
NumEngines == 2
\* most files an engine holds in pending_files
MaxPending == 2

\* source files watched by the engine of SpecSettle: paths 1..NumFiles
NumFiles == 2
\* last second of the clock of SpecSettle
MaxClock == 7
\* largest size a source file grows to in SpecSettle
MaxSize == 3

\* longest source file of SpecCopy, in blocks of 4 MiB
MaxLen == 4
\* seconds of datetime.now() that SpecCopy's calls of copy_backup see
MaxStamp == 2
\* calls of copy_backup in one behaviour of SpecCopy
MaxAttempts == 3

\* entries of the destination directory in SpecRetention
NumEntries == 2
\* the time of the retention pass, in quarters of a day since the epoch
MaxTime == 6
\* largest retention_value of SpecRetention, in days
MaxDays == 1
\* largest distance of the local time zone from UTC, in quarters of a day
MaxTz == 1

\* largest retention_value of SpecCount, in entries
MaxLimit == 2

\* paths under the source root of SpecMirror
NumPaths == 2
\* largest size of a source file of SpecMirror
MaxFileSize == 2
\* creations, changes, deletions and moves in one behaviour of SpecMirror
MaxOps == 3

\* configurations known to the supervisor (SpecSupervisor)
NumSupConfigs == 2
\* engines the supervisor creates in one behaviour of SpecSupervisor
NumManagers == 2
\* request threads of the web server that call the supervisor
NumRequests == 2
\* calls of the supervisor in one behaviour of SpecSupervisor
MaxCalls == 3

\* ticks a pending file must stay unchanged before it is copied, ticks
\* between two periodic rescans, and source events per run, in SpecQueue
SettleTicks == 1
RescanTicks == 2
MaxMtime == 2
MaxEvents == 2
\* writes and deletions of source files in one behaviour of SpecBatch
MaxBatchEvents == 3

\* edits of one configuration that SpecEdit saves
MaxEdits == 2

\* keys the history map of SpecCli can hold
NumHistKeys == 2

\* chunks of the file the engine of SpecStatus copies
StatusChunks == 1
\* latest reading of datetime.utcnow() in SpecStatus
MaxNow == 2

\* timedelta(days=1), in quarters of a day
UnitsPerDay == 4

\* COPY_CHUNK_SIZE (8 MiB), in blocks of 4 MiB
COPY_CHUNK_SIZE == 2

\* SyncConfig.settle_seconds as the supervisor builds it: the default
DEFAULT_SETTLE_SECONDS == 3

\* Python's None for an Optional[int] holding a configuration id
None == 0

ConfigIds == 1..NumConfigs
EngineIds == 1..NumEngines
\* engine instances of SpecShare: 1 and 2 are the engines of configurations
\* 1 and 2; the last is the instance a restart builds for configuration 1
\* after it stopped instance 1
NumInstances == 3
Instances == 1..NumInstances
Restarted == NumInstances
config_id_of(i) == IF i = Restarted THEN 1 ELSE i
\* most entries an instance of SpecShare has pending
MaxShareFiles == 2
\* most instances of SpecShare whose stop() is called
MaxStops == 1
\* canonical source roots (str(source_path.resolve()))
SourceKeys == {"srcA", "srcB"}

VARIABLES
    \* ---- the copy coordinator and its callers (SpecLane, Spec) ----
    source,      \* config id -> canonical source root (SyncConfig.source)
    lanes,       \* SourceCopyCoordinator._lanes: key -> lane record
    pc,          \* position of each worker thread
    stop_event,  \* FileSyncManager._stop_event, the cancel signal
    held,        \* ids whose last acquire returned True and that have not
                 \* called release or abandon since (SpecLane)
    bypass,      \* per waiter: slot grants to other ids since it joined
                 \* the waiting list (SpecLane)
    \* ---- the engines (Spec) ----
    running,     \* FileSyncManager.running
    pcStop,      \* position of the supervisor thread inside stop()
    pending,     \* len(FileSyncManager.pending_files)
    todo,        \* entries of the tick's snapshot not yet visited
    copyResult,  \* outcome of copy_backup awaiting the finally block
    copy_slot_acquired
                 \* what _acquire_copy_slot returned in the engine's last
                 \* pass over its pending files ("none": not called)

    ,
    \* ---- one engine's debounce ticks on a clock (SpecSettle) ----
    clock,            \* time.time(), in seconds
    src_files,        \* source path -> [size, mtime] as stat() reports them
    event_queue,      \* FileSyncManager._event_queue (paths, coalesced)
    pending_files,    \* FileSyncManager.pending_files, in insertion order
    existing_backups, \* FileSyncManager._existing_backups: path -> size
    tick_pc,          \* where the engine is: "start", "sleep", "scan",
                      \* "copying"
    now,              \* the local `now` of _process_pending_files
    snapshot,         \* paths of _pending_items_snapshot() still to visit
    processed_paths,  \* the local processed_paths
    wake_at,          \* when time.sleep(1) of the run loop returns
    current_file      \* the path copy_backup is working on; 0: none
    ,
    \* ---- one source file copied by copy_backup (SpecCopy) ----
    source_len,         \* size of the source file; its block i holds i
    files,              \* the destination directory: path -> content
    stamp,              \* the second datetime.now() is in
    copy_pc,            \* where copy_backup is: "idle", "loop", "read",
                        \* "written", "finish", "replace", "copystat",
                        \* "returned", "raised", "cancelled"
    destination_path,   \* the name build_destination_path returned
    overwrite_existing, \* the argument of copy_backup
    start_pos,          \* the argument of copy_file_with_progress
    copied,             \* the local `copied`, also the source position
    cancel_event,       \* the engine's _stop_event, passed as cancel_event
    copied_path,        \* what copy_backup returned: "path" or "none"
    sync_history,       \* names the engine recorded in its history
    target_before,      \* content of destination_path when copy_backup
                        \* was called
    attempts            \* calls of copy_backup so far
    ,
    \* ---- one days-mode retention pass (SpecRetention) ----
    tz_offset,          \* local time minus UTC on the machine
    retention_days,     \* the argument retention_days
    entries,            \* entry -> [exists, mtimes]: the mtimes of the
                        \* entry and of everything under it (UTC epoch)
    history_values,     \* sync_history: entry -> timestamp, NoValue or
                        \* Unparseable
    ret_pc,             \* "idle", "scan", "pop", "done"
    ret_idx,            \* the entry the loop is at
    threshold,          \* the local `threshold`
    history_keys_to_remove,
    delete_failed       \* entries whose _delete_entry raised
    ,
    \* ---- one count-mode retention pass (SpecCount), over entries,
    \*      history_values and tz_offset ----
    inside,             \* entry 2 lies inside entry 1, a directory
    retention_limit,    \* the argument retention_limit
    file_entries,       \* the local file_entries: <<entry, synced_at>>
    targets,            \* what is left of the local `targets`
    count_pc,           \* "idle", "delete", "done"
    history_before      \* sync_history as it was when the pass began
    ,
    \* ---- one sync-mode engine mirroring a source root (SpecMirror) ----
    src_tree,           \* source path -> size of the file; 0: no file
    dst_tree,           \* the same relative path at the destination
    mirror_history,     \* keys of FileSyncManager.sync_history
    mirror_backups,     \* FileSyncManager._existing_backups: path -> size
    file_queue,         \* FileSyncManager._event_queue
    delete_queue,       \* FileSyncManager._delete_queue
    mirror_pending,     \* keys of FileSyncManager.pending_files
    mirror_snapshot,    \* pending files the tick has yet to visit
    mirror_pc,          \* "start", "sleep", "deletes", "rescan",
                        \* "pending", "copying"
    copy_of,            \* <<path, size>> copy_backup is working on
    rescan_interval,    \* FileSyncManager._rescan_interval
    unlinked,            \* paths _handle_source_deletion unlinked
    ops                 \* changes made to the source so far
    ,
    \* ---- the supervisor of routes.py (SpecSupervisor) ----
    sync_managers,      \* routes.sync_managers: config id -> engine, None
    is_active,          \* sync_configs.is_active of each configuration
    source_ok,          \* the source root exists and is a directory
    managers,           \* the FileSyncManager objects and their threads
    req,                \* the supervisor call each request thread is in
    calls               \* supervisor calls made so far
    ,
    \* ---- one engine publishing its status (SpecStatus) ----
    status,             \* FileSyncManager._status: state, progress_percent
                        \* (in chunks copied) and updated_at
    utcnow,             \* what datetime.utcnow() returns
    st_pc,              \* thread -> where it is; "notify": between the
                        \* update under the lock and the callback
    status_snapshot,    \* thread -> the local status_snapshot
    st_after,           \* thread -> where _update_status was called from:
                        \* the position after it, and the position an
                        \* exception leaving it would reach
    st_running,         \* FileSyncManager.running
    st_stop_event,      \* FileSyncManager._stop_event
    st_slot,            \* the engine holds the slot of its copy lane
    st_pending,         \* FileSyncManager.pending_files is not empty
    st_copied,          \* the local `copied` of copy_file_with_progress
    st_copied_path,     \* what copy_backup returned: "path", "none";
                        \* "cancelled": it raised CopyCancelled
    updates,            \* thread -> executions of _update_status so far
    callbacks,          \* thread -> invocations of the callback so far
    made,               \* thread -> _status as its last update left it
    delivered,          \* thread -> what the callback was last given
    raised_in_copy,     \* the callback raised inside copy_backup
    failure             \* what made the copy or the entry fail: "none",
                        \* "io" (read or write error), "stat"
    ,
    \* ---- one days-mode engine started on an empty destination
    \*      (SpecDays), over entries, history_values, tz_offset and
    \*      retention_days ----
    src_mtime,          \* source file -> its mtime (UTC epoch)
    days_pending,       \* keys of FileSyncManager.pending_files
    days_pc             \* "start", "loop", "drained"
    ,
    \* ---- one command-line invocation and its history file (SpecCli) ----
    cli_pc,             \* "main", "run", "loop", "save", "write",
                        \* "returned", "exited", "killed"
    cli_source_ok,      \* --source exists and is a directory
    exit_status,        \* the exit status of the process; NoValue: running
    cli_history,        \* FileSyncManager.sync_history (its keys)
    history_file,       \* sync_history.json on disk: the keys written and
                        \* whether the JSON text is complete
    file_before         \* sync_history.json when the save under way began
    ,
    \* ---- the rows of sync_configs as edits change them (SpecEdit) ----
    config_rev          \* per configuration id: the number of edits saved
    ,
    \* ---- one call of enforce_retention (SpecEnforce) ----
    retention_mode,     \* "days", "count", "sync"
    retention,          \* the retention argument, zero and negative too
    enforce_pc,         \* "idle", "days", "count", "returned"
    history_changed     \* the value enforce_retention returned
    ,
    \* ---- one engine, its queue and its status, tick by tick (SpecQueue) ----
    mgr,                \* the FileSyncManager: running, pending_files,
                        \* _queue_total_bytes, _queue_completed_bytes,
                        \* _status, _existing_backups, sync_history (keys,
                        \* oldest first), _event_queue, _delete_queue, the
                        \* ticks since the last rescan, and whether the
                        \* batch under way copied a non-empty file
    q_config,           \* retention_mode, retention, rescan interval
    q_src,              \* per path: the size of the source file, or NoValue
    q_dst,              \* per path: the size of the backup, or NoValue
    q_seen              \* what happened to the source so far: a write, a
                        \* move, a deletion, a tick after a deletion; and
                        \* the number of source events
    ,
    \* ---- the start of run() of that engine (SpecStart) ----
    q_mtime,            \* per path: the mtime of the source file
    q_row,              \* the configuration the engine was built from: its
                        \* scan interval, and who built the engine, the
                        \* start route ("route") or main() ("cli")
    run_pc              \* "created", "validate", "retention", "observer",
                        \* "seed", "loop", "invalid", "no_observer"
    ,
    \* ---- engine instances sharing one source root, their published
    \*      states, and a restart (SpecShare) ----
    sh_lane,            \* the _CopyLane of the shared source root
    sh_pc,              \* per instance: where its run() thread is
    sh_stop,            \* per instance: where the thread calling its
                        \* stop() is: "idle", "event", "halted",
                        \* "abandoned", "done"
    sh_running,         \* per instance: FileSyncManager.running
    sh_pub,             \* per instance: the state of its published
                        \* status and the blocker its details name
    sh_todo,            \* per instance: entries of pending_files
    sh_result,          \* per instance: how copy_backup ended
    sh_notice,          \* per instance: _last_wait_notice is not 0.0
    sh_held             \* instances whose acquire returned True and that
                        \* called no release or abandon since
    ,
    \* ---- the engine of SpecQueue entry by entry, its copies chunk by
    \*      chunk, any of them failing (SpecBatch) ----
    b_pc,               \* the worker: "loop", "pass", "opening", "copying",
                        \* "progress", "finishing", "exited"
    b_rest,             \* the entries of the snapshot the pass has not
                        \* dealt with; the first is the current one
    b_copied,           \* bytes of the current file written to its .part
    b_part,             \* per path: the size of '<target>.part', NoValue
                        \* when there is none
    b_stop,             \* the thread in stop(): "idle", "event", "halted",
                        \* "done"
    b_outcome           \* how the pass dealt with the last entry

laneVars == <<source, lanes, pc, stop_event, held, bypass>>
engineVars == <<running, pcStop, pending, todo, copyResult,
               copy_slot_acquired>>

settleVars == <<clock, src_files, event_queue, pending_files,
               existing_backups, tick_pc, now, snapshot, processed_paths,
               wake_at, current_file>>

copyVars == <<source_len, files, stamp, copy_pc, destination_path,
             overwrite_existing, start_pos, copied, cancel_event,
             copied_path, sync_history, target_before, attempts>>

retVars == <<tz_offset, retention_days, entries, history_values, ret_pc,
            ret_idx, threshold, history_keys_to_remove, delete_failed>>

countVars == <<inside, retention_limit, file_entries, targets, count_pc,
              history_before>>

mirrorVars == <<src_tree, dst_tree, mirror_history, mirror_backups,
               file_queue, delete_queue, mirror_pending, mirror_snapshot,
               mirror_pc, copy_of, rescan_interval, unlinked, ops>>

supVars == <<sync_managers, is_active, source_ok, managers, req, calls>>

statusVars == <<status, utcnow, st_pc, status_snapshot, st_after,
               st_running, st_stop_event, st_slot, st_pending, st_copied,
               st_copied_path, updates, callbacks, made, delivered,
               raised_in_copy, failure>>

daysVars == <<src_mtime, days_pending, days_pc>>

cliVars == <<cli_pc, cli_source_ok, exit_status, cli_history, history_file,
            file_before>>

editVars == <<config_rev>>

enforceVars == <<retention_mode, retention, enforce_pc, history_changed>>

queueVars == <<mgr, q_config, q_src, q_dst, q_seen>>

startVars == <<q_mtime, q_row, run_pc>>

shareVars == <<sh_lane, sh_pc, sh_stop, sh_running, sh_pub, sh_todo,
              sh_result, sh_notice, sh_held>>

batchVars == <<b_pc, b_rest, b_copied, b_part, b_stop, b_outcome>>

\* the variables of the sub-models that follow SpecQueue
tailVars == <<startVars, shareVars, batchVars>>

\* the variables of the sub-models that follow SpecDays
lastVars == <<cliVars, editVars, enforceVars, queueVars, tailVars>>

\* the variables of the sub-models that follow SpecMirror
moreVars == <<supVars, statusVars, daysVars, lastVars>>

\* the variables of the sub-models that follow SpecRetention
laterVars == <<countVars, mirrorVars, moreVars>>

\* the variables outside the lane and the engines of Spec
sideVars == <<settleVars, copyVars, retVars, laterVars>>

\* the variables outside SpecSettle
outsideSettle == <<laneVars, engineVars, copyVars, retVars, laterVars>>

\* the variables outside SpecCopy
outsideCopy == <<laneVars, engineVars, settleVars, retVars, laterVars>>

\* the variables outside SpecRetention
outsideRetention == <<laneVars, engineVars, settleVars, copyVars, laterVars>>

\* the variables outside SpecCount, which shares the destination of
\* SpecRetention
outsideCount == <<laneVars, engineVars, settleVars, copyVars,
                  retention_days, ret_pc, ret_idx, threshold,
                  history_keys_to_remove, mirrorVars, moreVars>>

\* the variables outside SpecMirror
outsideMirror == <<laneVars, engineVars, settleVars, copyVars, retVars,
                   countVars, moreVars>>

\* the variables outside SpecSupervisor
outsideSupervisor == <<laneVars, engineVars, settleVars, copyVars, retVars,
                       countVars, mirrorVars, statusVars, daysVars,
                       lastVars>>

\* the variables outside SpecStatus
outsideStatus == <<laneVars, engineVars, settleVars, copyVars, retVars,
                   countVars, mirrorVars, supVars, daysVars, lastVars>>

\* the variables outside SpecDays, which shares the destination of
\* SpecRetention
outsideDays == <<laneVars, engineVars, settleVars, copyVars, ret_pc, ret_idx,
                 threshold, history_keys_to_remove, delete_failed, countVars,
                 mirrorVars, supVars, statusVars, lastVars>>

\* the variables of the sub-models up to SpecDays
earlierVars == <<laneVars, engineVars, settleVars, copyVars, retVars,
                 countVars, mirrorVars, supVars, statusVars, daysVars>>

\* the variables outside SpecCli
outsideCli == <<earlierVars, editVars, enforceVars, queueVars, tailVars>>

\* the variables outside SpecQueue
outsideQueue == <<earlierVars, cliVars, editVars, enforceVars, tailVars>>

\* the variables outside SpecStart, which starts the engine of SpecQueue
outsideStart == <<earlierVars, cliVars, editVars, enforceVars, shareVars,
                  batchVars>>

\* the variables outside SpecShare
outsideShare == <<earlierVars, cliVars, editVars, enforceVars, queueVars,
                  startVars, batchVars>>

\* the variables outside SpecBatch, those of the engine of SpecQueue apart
outsideBatch == <<earlierVars, cliVars, editVars, enforceVars, startVars,
                  shareVars>>

\* the variables outside SpecEdit, the supervisor's apart
outsideEdit == <<laneVars, engineVars, settleVars, copyVars, retVars,
                 countVars, mirrorVars, statusVars, daysVars, cliVars,
                 enforceVars, queueVars, tailVars>>

\* the variables outside SpecEnforce, those of the two passes apart
outsideEnforce == <<laneVars, engineVars, settleVars, copyVars, mirrorVars,
                    supVars, statusVars, daysVars, cliVars, editVars,
                    queueVars, tailVars>>

vars == <<laneVars, engineVars, settleVars, copyVars, retVars, laterVars>>

(***************************************************************************)
(* _CopyLane                                                               *)
(***************************************************************************)
Range(s) == {s[i] : i \in 1..Len(s)}

\* _CopyLane.__init__
NewLane == [active_id |-> None, waiting |-> <<>>, last_served_id |-> None]

\* _CopyLane._remove_waiter
remove_waiter(waiting, config_id) ==
    SelectSeq(waiting, LAMBDA cid : cid # config_id)

\* sorted(set(ids)): ascending, without duplicates
RECURSIVE SortedSet(_)
SortedSet(S) ==
    IF S = {} THEN <<>>
    ELSE LET m == CHOOSE x \in S : \A y \in S : x <= y
         IN  <<m>> \o SortedSet(S \ {m})

\* mutant of _next_candidate: the round robin is lost, the smallest waiter
\* is always next
next_candidate_smallest(lane) ==
    IF lane.waiting = <<>> THEN None
    ELSE SortedSet(Range(lane.waiting))[1]

\* mutant of _next_candidate: "cid >= last_served_id" for "cid >"
next_candidate_not_strict(lane) ==
    IF lane.waiting = <<>> THEN None
    ELSE LET unique_sorted == SortedSet(Range(lane.waiting))
             higher == SelectSeq(unique_sorted,
                                 LAMBDA cid : cid >= lane.last_served_id)
         IN  IF lane.last_served_id = None THEN unique_sorted[1]
             ELSE IF higher # <<>> THEN higher[1]
             ELSE unique_sorted[1]

\* _CopyLane._next_candidate
next_candidate(lane) ==
    IF lane.waiting = <<>> THEN None
    ELSE LET unique_sorted == SortedSet(Range(lane.waiting))
             higher == SelectSeq(unique_sorted,
                                 LAMBDA cid : cid > lane.last_served_id)
         IN  IF lane.last_served_id = None THEN unique_sorted[1]
             ELSE IF higher # <<>> THEN higher[1]
             ELSE unique_sorted[1]

\* mutant of acquire: the cancel signal is looked at only when the slot
\* cannot be taken
acquire_pass_cancel_last(lane, config_id, cancelled) ==
    LET can_take_slot ==
            /\ (lane.active_id = None \/ lane.active_id = config_id)
            /\ next_candidate(lane) = config_id
    IN  IF can_take_slot
        THEN [lane |-> [lane EXCEPT !.waiting = remove_waiter(@, config_id),
                                    !.active_id = config_id],
              out  |-> "true"]
        ELSE IF cancelled
             THEN [lane |-> [lane EXCEPT
                               !.waiting = remove_waiter(@, config_id)],
                   out  |-> "false"]
             ELSE [lane |-> lane, out |-> "wait"]

\* mutant of acquire: the slot is taken without looking at active_id
acquire_pass_ignores_holder(lane, config_id, cancelled) ==
    IF cancelled
    THEN [lane |-> [lane EXCEPT !.waiting = remove_waiter(@, config_id)],
          out  |-> "false"]
    ELSE IF next_candidate(lane) = config_id
         THEN [lane |-> [lane EXCEPT
                           !.waiting = remove_waiter(@, config_id),
                           !.active_id = config_id],
               out  |-> "true"]
         ELSE [lane |-> lane, out |-> "wait"]

\* one pass of the while-loop of _CopyLane.acquire, under the lane's lock:
\* the lane after it and the outcome ("true"/"false" returned, or "wait")
acquire_pass(lane, config_id, cancelled) ==
    IF cancelled
    THEN [lane |-> [lane EXCEPT !.waiting = remove_waiter(@, config_id)],
          out  |-> "false"]
    ELSE LET can_take_slot ==
                 /\ (lane.active_id = None \/ lane.active_id = config_id)
                 /\ next_candidate(lane) = config_id
         IN  IF can_take_slot
             THEN [lane |-> [lane EXCEPT
                               !.waiting = remove_waiter(@, config_id),
                               !.active_id = config_id],
                   out  |-> "true"]
             ELSE [lane |-> lane, out |-> "wait"]

\* entry of _CopyLane.acquire: join the waiters, then the first pass
acquire_enter(lane, config_id, cancelled) ==
    LET joined == IF config_id \in Range(lane.waiting) THEN lane
                  ELSE [lane EXCEPT !.waiting = Append(@, config_id)]
    IN  acquire_pass(joined, config_id, cancelled)

\* a coordinator whose release does nothing
coord_release_never(ls, key, config_id) == ls

\* a release that frees the slot whoever calls it
lane_release_unchecked(lane, config_id) ==
    [lane EXCEPT !.active_id = None, !.last_served_id = config_id]

\* _CopyLane.release
lane_release(lane, config_id) ==
    IF lane.active_id = config_id
    THEN [lane EXCEPT !.active_id = None, !.last_served_id = config_id]
    ELSE lane

\* an abandon that takes the id off the waiter list and leaves the slot
lane_abandon_waiter_only(lane, config_id) ==
    [lane EXCEPT !.waiting = remove_waiter(@, config_id)]

\* _CopyLane.abandon
lane_abandon(lane, config_id) ==
    LET removed == [lane EXCEPT !.waiting = remove_waiter(@, config_id)]
    IN  IF removed.active_id = config_id
        THEN [removed EXCEPT !.active_id = None,
                             !.last_served_id = config_id]
        ELSE removed

(***************************************************************************)
(* SourceCopyCoordinator                                                   *)
(***************************************************************************)
\* SourceCopyCoordinator._lane_for: the lane of a key, created on first use
lane_for(ls, key) == IF key \in DOMAIN ls THEN ls[key] ELSE NewLane

\* the lanes after a lane op wrote back the lane of key
WithLane(ls, key, lane) ==
    [k \in DOMAIN ls \cup {key} |-> IF k = key THEN lane ELSE ls[k]]

\* SourceCopyCoordinator.release: no lane for the key, nothing to do
coord_release(ls, key, config_id) ==
    IF key \in DOMAIN ls
    THEN [ls EXCEPT ![key] = lane_release(@, config_id)]
    ELSE ls

\* SourceCopyCoordinator.abandon
coord_abandon(ls, key, config_id) ==
    IF key \in DOMAIN ls
    THEN [ls EXCEPT ![key] = lane_abandon(@, config_id)]
    ELSE ls

(***************************************************************************)
(* SpecLane: the threads that call into the coordinator: one worker per    *)
(* configuration id, and the threads that abandon on its behalf            *)
(***************************************************************************)
\* cap of the bypass counter: one more than any bound stated about it
BypassCap == NumConfigs + 1

Paths == 1..NumFiles

\* one engine just constructed, its source files in place and unchanged
\* since second 0, an empty destination
SettleInit ==
    /\ clock = 0
    /\ src_files = [f \in Paths |-> [size |-> 1, mtime |-> 0]]
    /\ event_queue = {}
    /\ pending_files = <<>>
    /\ existing_backups = [f \in Paths |-> None]
    /\ tick_pc = "start"
    /\ now = 0
    /\ snapshot = <<>>
    /\ processed_paths = {}
    /\ wake_at = 0
    /\ current_file = 0

\* a file that does not exist
Absent == <<-1>>

\* the names build_destination_path can return: 0 is destination/rel_path,
\* t > 0 is "<stem>_<timestamp of second t><suffix>"
Names == 0..MaxStamp

\* the paths of the destination directory: a name, or the name + ".part"
DestPaths == Names \X {"final", "part"}

\* the first k blocks of a file whose block i holds i
Tagged(k) == [i \in 1..k |-> i]

\* k blocks of an earlier, different content
Old(k) == [i \in 1..k |-> 0]

\* the content of the source file
Src == Tagged(source_len)

\* no copy_backup anywhere: an empty destination directory
CopyAtRest ==
    /\ source_len = 0
    /\ files = [q \in DestPaths |-> Absent]
    /\ stamp = 1
    /\ copy_pc = "idle"
    /\ destination_path = 0
    /\ overwrite_existing = FALSE
    /\ start_pos = 0
    /\ copied = 0
    /\ cancel_event = FALSE
    /\ copied_path = "none"
    /\ sync_history = {}
    /\ target_before = Absent
    /\ attempts = 0

\* the entries of the destination that match the patterns, outside
\* .history/, not .part
Entries == 1..NumEntries

\* sync_history.get(key) is None
NoValue == -1

\* a history value datetime.fromisoformat rejects
Unparseable == -2

\* no retention pass anywhere: an empty destination on a UTC machine
RetentionAtRest ==
    /\ tz_offset = 0
    /\ retention_days = 0
    /\ entries = [e \in Entries |-> [exists |-> FALSE, mtimes |-> {0}]]
    /\ history_values = [e \in Entries |-> NoValue]
    /\ ret_pc = "idle"
    /\ ret_idx = 1
    /\ threshold = 0
    /\ history_keys_to_remove = {}
    /\ delete_failed = {}

\* no count-mode pass anywhere
CountAtRest ==
    /\ inside = FALSE
    /\ retention_limit = 0
    /\ file_entries = <<>>
    /\ targets = <<>>
    /\ count_pc = "idle"
    /\ history_before = [e \in Entries |-> NoValue]

MirrorPaths == 1..NumPaths

\* no sync-mode engine anywhere
MirrorAtRest ==
    /\ src_tree = [f \in MirrorPaths |-> 0]
    /\ dst_tree = [f \in MirrorPaths |-> 0]
    /\ mirror_history = {}
    /\ mirror_backups = [f \in MirrorPaths |-> None]
    /\ file_queue = {}
    /\ delete_queue = {}
    /\ mirror_pending = {}
    /\ mirror_snapshot = {}
    /\ mirror_pc = "start"
    /\ copy_of = <<0, 0>>
    /\ rescan_interval = 0
    /\ unlinked = {}
    /\ ops = 0

SupIds == 1..NumSupConfigs
ManagerIds == 1..NumManagers
Requests == 1..NumRequests

\* a FileSyncManager that was not created yet
NoManager ==
    [config |-> None, pc |-> "none", running |-> FALSE,
     stop_event |-> FALSE, stopped |-> FALSE, rev |-> 0]

\* a request thread outside _start_sync_manager and _stop_sync_manager
NoCall ==
    [op |-> "none", pc |-> "idle", config |-> None, update_db |-> TRUE,
     manager |-> None, result |-> "none", src_missing |-> FALSE,
     already |-> FALSE, rev |-> 0, edit |-> FALSE, was_running |-> FALSE]

\* no supervisor anywhere
SupervisorAtRest ==
    /\ sync_managers = [c \in SupIds |-> None]
    /\ is_active = [c \in SupIds |-> FALSE]
    /\ source_ok = [c \in SupIds |-> TRUE]
    /\ managers = [m \in ManagerIds |-> NoManager]
    /\ req = [t \in Requests |-> NoCall]
    /\ calls = 0

\* the worker thread and the thread that calls stop()
StatusThreads == {"worker", "stopper"}

\* FileSyncManager._status as __init__ leaves it
InitialStatus == [state |-> "IDLE", progress_percent |-> 0, updated_at |-> None]

\* no engine publishing anywhere
StatusAtRest ==
    /\ status = InitialStatus
    /\ utcnow = 1
    /\ st_pc = [th \in StatusThreads |-> "idle"]
    /\ status_snapshot = [th \in StatusThreads |-> InitialStatus]
    /\ st_after = [th \in StatusThreads |-> <<"idle", "idle">>]
    /\ st_running = FALSE
    /\ st_stop_event = FALSE
    /\ st_slot = FALSE
    /\ st_pending = FALSE
    /\ st_copied = 0
    /\ st_copied_path = "none"
    /\ updates = [th \in StatusThreads |-> 0]
    /\ callbacks = [th \in StatusThreads |-> 0]
    /\ made = [th \in StatusThreads |-> InitialStatus]
    /\ delivered = [th \in StatusThreads |-> InitialStatus]
    /\ raised_in_copy = FALSE
    /\ failure = "none"

\* no days-mode engine anywhere
DaysAtRest ==
    /\ src_mtime = [f \in Entries |-> 0]
    /\ days_pending = {}
    /\ days_pc = "start"

HistKeys == 1..NumHistKeys

\* a history file holding the complete JSON text of a map with keys ks
CompleteFile(ks) == [keys |-> ks, complete |-> TRUE]

\* no command-line invocation anywhere
CliAtRest ==
    /\ cli_pc = "main"
    /\ cli_source_ok = TRUE
    /\ exit_status = NoValue
    /\ cli_history = {}
    /\ history_file = CompleteFile({})
    /\ file_before = CompleteFile({})

\* no edit saved yet
EditAtRest == config_rev = [c \in SupIds |-> 0]

\* enforce_retention is not called
EnforceAtRest ==
    /\ retention_mode = "days"
    /\ retention = 0
    /\ enforce_pc = "idle"
    /\ history_changed = FALSE

\* pending_files[p] of a path that is not pending
NotPending == [last_size |-> NoValue, age |-> 0]

\* an engine that watches an empty queue
NewManager ==
    [running |-> TRUE,
     pending_files |-> [p \in MirrorPaths |-> NotPending],
     queue_total_bytes |-> 0,
     queue_completed_bytes |-> 0,
     status |-> [state |-> "IDLE", current_file |-> None,
                 progress_percent |-> 0,
                 details |-> "Watching for file changes..."],
     existing_backups |-> [p \in MirrorPaths |-> NoValue],
     sync_history |-> <<>>,
     event_queue |-> <<>>,
     delete_queue |-> <<>>,
     since_rescan |-> NoValue,
     batch_copied |-> FALSE]

\* nothing has happened to the source
NothingSeen ==
    [written |-> FALSE, moved |-> FALSE, deleted |-> FALSE,
     handled |-> FALSE, events |-> 0]

\* no engine of SpecQueue anywhere
QueueAtRest ==
    /\ mgr = NewManager
    /\ q_config = [retention_mode |-> "days", retention |-> 0,
                   rescan_ticks |-> 0]
    /\ q_src = [p \in MirrorPaths |-> NoValue]
    /\ q_dst = [p \in MirrorPaths |-> NoValue]
    /\ q_seen = NothingSeen

\* the engine of SpecQueue is in its loop; mtimes play no part
StartAtRest ==
    /\ q_mtime = [p \in MirrorPaths |-> 0]
    /\ q_row = [interval |-> 0, via |-> "cli"]
    /\ run_pc = "loop"

\* no instance of SpecShare was started
ShareAtRest ==
    /\ sh_lane = NewLane
    /\ sh_pc = [i \in Instances |-> "created"]
    /\ sh_stop = [i \in Instances |-> "idle"]
    /\ sh_running = [i \in Instances |-> FALSE]
    /\ sh_pub = [i \in Instances |-> [state |-> "IDLE", blocker |-> None]]
    /\ sh_todo = [i \in Instances |-> 0]
    /\ sh_result = [i \in Instances |-> "none"]
    /\ sh_notice = [i \in Instances |-> FALSE]
    /\ sh_held = {}

\* the engine of SpecQueue is between two passes, nothing was copied
BatchAtRest ==
    /\ b_pc = "loop"
    /\ b_rest = <<>>
    /\ b_copied = 0
    /\ b_part = [p \in MirrorPaths |-> NoValue]
    /\ b_stop = "idle"
    /\ b_outcome = "none"

\* the sub-models that follow SpecQueue, at rest
TailAtRest == StartAtRest /\ ShareAtRest /\ BatchAtRest

\* the sub-models that follow SpecDays, at rest
LastAtRest ==
    CliAtRest /\ EditAtRest /\ EnforceAtRest /\ QueueAtRest /\ TailAtRest

\* the sub-models that follow SpecMirror, at rest
MoreAtRest == SupervisorAtRest /\ StatusAtRest /\ DaysAtRest /\ LastAtRest

\* the sub-models that follow SpecRetention, at rest
LaterAtRest == CountAtRest /\ MirrorAtRest /\ MoreAtRest

\* the engine variables, at rest
EngineInit ==
    /\ running = [e \in EngineIds |-> FALSE]
    /\ pcStop = [e \in EngineIds |-> "idle"]
    /\ pending = [e \in EngineIds |-> 0]
    /\ todo = [e \in EngineIds |-> 0]
    /\ copyResult = [e \in EngineIds |-> "none"]
    /\ copy_slot_acquired = [e \in EngineIds |-> "none"]

\* the two source roots are interchangeable: configuration 1 is on the first
LaneInit ==
    /\ source \in {f \in [ConfigIds -> SourceKeys] : f[1] = "srcA"}
    /\ lanes = [k \in {} |-> NewLane]
    /\ pc = [c \in ConfigIds |-> "idle"]
    /\ stop_event = [c \in ConfigIds |-> FALSE]
    /\ held = {}
    /\ bypass = [c \in ConfigIds |-> 0]
    /\ EngineInit
    /\ SettleInit
    /\ CopyAtRest
    /\ RetentionAtRest
    /\ LaterAtRest

\* the bypass counters after the slot of lane went to config_id
Bypassed(lane, config_id) ==
    [i \in DOMAIN bypass |->
        IF i # config_id /\ i \in Range(lane.waiting) /\ bypass[i] < BypassCap
        THEN bypass[i] + 1 ELSE bypass[i]]

\* the caller's side of an acquire pass whose outcome is r
Acquired(c, r) ==
    /\ lanes' = WithLane(lanes, source[c], r.lane)
    /\ CASE r.out = "true" ->
              /\ pc' = [pc EXCEPT ![c] = "holding"]
              /\ held' = held \cup {c}
              /\ bypass' = Bypassed(r.lane, c)
         [] r.out = "false" ->
              /\ pc' = [pc EXCEPT ![c] = "idle"]
              /\ UNCHANGED <<held, bypass>>
         [] r.out = "wait" ->
              /\ pc' = [pc EXCEPT ![c] = "waiting"]
              /\ UNCHANGED <<held, bypass>>

\* SourceCopyCoordinator.acquire: lane lookup, entry and first pass; the
\* pass finds the caller's cancel signal asserted or not
Acquire(c) ==
    /\ pc[c] = "idle"
    /\ \E cancelled \in BOOLEAN :
         LET r == acquire_enter(lane_for(lanes, source[c]), c, cancelled)
         IN  /\ lanes' = WithLane(lanes, source[c], r.lane)
             /\ CASE r.out = "true" ->
                       /\ pc' = [pc EXCEPT ![c] = "holding"]
                       /\ held' = held \cup {c}
                       /\ bypass' = [Bypassed(r.lane, c) EXCEPT ![c] = 0]
                  [] r.out = "false" ->
                       /\ pc' = [pc EXCEPT ![c] = "idle"]
                       /\ bypass' = [bypass EXCEPT ![c] = 0]
                       /\ UNCHANGED held
                  [] r.out = "wait" ->
                       /\ pc' = [pc EXCEPT ![c] = "waiting"]
                       /\ bypass' = [bypass EXCEPT ![c] = 0]
                       /\ UNCHANGED held
    /\ UNCHANGED sideVars
    /\ UNCHANGED <<source, stop_event, engineVars>>

\* _CopyLane.acquire: a pass after condition.wait(timeout=0.5) returned
Wake(c) ==
    /\ pc[c] = "waiting"
    /\ \E cancelled \in BOOLEAN :
         Acquired(c, acquire_pass(lane_for(lanes, source[c]), c, cancelled))
    /\ UNCHANGED sideVars
    /\ UNCHANGED <<source, stop_event, engineVars>>

\* SourceCopyCoordinator.release, called by the worker after its copy
Release(c) ==
    /\ pc[c] = "holding"
    /\ lanes' = coord_release(lanes, source[c], c)
    /\ held' = held \ {c}
    /\ pc' = [pc EXCEPT ![c] = "idle"]
    /\ UNCHANGED sideVars
    /\ UNCHANGED <<source, stop_event, bypass, engineVars>>

\* SourceCopyCoordinator.abandon, called for c from any thread at any time
Abandon(c) ==
    /\ lanes' = coord_abandon(lanes, source[c], c)
    /\ held' = held \ {c}
    /\ UNCHANGED sideVars
    /\ UNCHANGED <<source, pc, stop_event, bypass, engineVars>>

LaneNext ==
    \E c \in ConfigIds :
        \/ Acquire(c)
        \/ Wake(c)
        \/ Release(c)
        \/ Abandon(c)

SpecLane == LaneInit /\ [][LaneNext]_vars

(***************************************************************************)
(* Spec: engines (FileSyncManager) sharing the coordinator, and the        *)
(* supervisor's stop()                                                     *)
(***************************************************************************)
Init ==
    /\ source \in {f \in [EngineIds -> SourceKeys] : f[1] = "srcA"}
    /\ lanes = [k \in {} |-> NewLane]
    /\ pc = [e \in EngineIds |-> "created"]
    /\ stop_event = [e \in EngineIds |-> FALSE]
    /\ held = {}
    /\ bypass = [c \in ConfigIds |-> 0]
    /\ EngineInit
    /\ SettleInit
    /\ CopyAtRest
    /\ RetentionAtRest
    /\ LaterAtRest

\* what _process_pending_files does with the outcome r of an acquire pass
AfterAcquire(e, r) ==
    /\ lanes' = WithLane(lanes, source[e], r.lane)
    /\ copy_slot_acquired' =
          [copy_slot_acquired EXCEPT ![e] = IF r.out = "wait" THEN @ ELSE r.out]
    /\ CASE r.out = "true" ->
              \* status COPYING, then copy_backup is entered
              /\ pc' = [pc EXCEPT ![e] = "copying"]
              /\ UNCHANGED <<pending, todo>>
         [] r.out = "false" ->
              \* the file is dropped and the loop over the snapshot is left
              /\ pc' = [pc EXCEPT ![e] = "loop"]
              /\ pending' = [pending EXCEPT ![e] = @ - 1]
              /\ todo' = [todo EXCEPT ![e] = 0]
         [] r.out = "wait" ->
              /\ pc' = [pc EXCEPT ![e] = "acquiring"]
              /\ UNCHANGED <<pending, todo>>

\* run(): self._stop_event.clear()
RunClear(e) ==
    /\ pc[e] = "created"
    /\ stop_event' = [stop_event EXCEPT ![e] = FALSE]
    /\ pc' = [pc EXCEPT ![e] = "starting"]
    /\ UNCHANGED sideVars
    /\ UNCHANGED <<source, lanes, held, bypass, engineVars>>

\* run(): self.running = True, validation, observer start, initial seed;
\* a failed validation or observer start ends run() with running = False
RunStart(e) ==
    /\ pc[e] = "starting"
    /\ \/ /\ running' = [running EXCEPT ![e] = FALSE]
          /\ pc' = [pc EXCEPT ![e] = "exited"]
          /\ UNCHANGED pending
       \/ /\ running' = [running EXCEPT ![e] = TRUE]
          /\ pc' = [pc EXCEPT ![e] = "loop"]
          /\ \E seeded \in 0..MaxPending :
                 pending' = [pending EXCEPT ![e] = seeded]
    /\ UNCHANGED sideVars
    /\ UNCHANGED <<source, lanes, stop_event, held, bypass, pcStop, todo,
                   copyResult, copy_slot_acquired>>

\* run(): one pass of the while-loop up to the per-file loop: the loop
\* test, the drained events registered as pending, the tick's snapshot
LoopTick(e) ==
    /\ pc[e] = "loop"
    /\ running[e] /\ ~stop_event[e]
    /\ \E arrived \in 0..(MaxPending - pending[e]) :
          /\ pending' = [pending EXCEPT ![e] = @ + arrived]
          /\ IF pending[e] + arrived > 0
             THEN /\ todo' = [todo EXCEPT ![e] = pending[e] + arrived]
                  /\ pc' = [pc EXCEPT ![e] = "entry"]
             ELSE UNCHANGED <<todo, pc>>
    /\ copy_slot_acquired' = [copy_slot_acquired EXCEPT ![e] = "none"]
    /\ UNCHANGED sideVars
    /\ UNCHANGED <<source, lanes, stop_event, held, bypass, running, pcStop,
                   copyResult>>

\* run(): the loop test fails; the finally block clears running and
\* abandons the copy slot
RunExit(e) ==
    /\ pc[e] = "loop"
    /\ ~(running[e] /\ ~stop_event[e])
    /\ running' = [running EXCEPT ![e] = FALSE]
    /\ lanes' = coord_abandon(lanes, source[e], e)
    /\ pc' = [pc EXCEPT ![e] = "exited"]
    /\ UNCHANGED sideVars
    /\ UNCHANGED <<source, stop_event, held, bypass, pcStop, pending, todo,
                   copyResult, copy_slot_acquired>>

\* _process_pending_files: the snapshot is exhausted, or running is false
\* at the head of an iteration (break)
EntryEnd(e) ==
    /\ pc[e] = "entry"
    /\ todo[e] = 0 \/ ~running[e]
    /\ todo' = [todo EXCEPT ![e] = 0]
    /\ pc' = [pc EXCEPT ![e] = "loop"]
    /\ UNCHANGED sideVars
    /\ UNCHANGED <<source, lanes, stop_event, held, bypass, running, pcStop,
                   pending, copyResult, copy_slot_acquired>>

\* _process_pending_files: an entry that is not copied in this tick: it
\* changed or has not settled (stays pending), or it is gone or already
\* mirrored (dropped)
EntrySkip(e) ==
    /\ pc[e] = "entry"
    /\ todo[e] > 0 /\ running[e]
    /\ todo' = [todo EXCEPT ![e] = @ - 1]
    /\ \/ UNCHANGED pending
       \/ pending' = [pending EXCEPT ![e] = @ - 1]
    /\ UNCHANGED sideVars
    /\ UNCHANGED <<source, lanes, pc, stop_event, held, bypass, running,
                   pcStop, copyResult, copy_slot_acquired>>

\* _process_pending_files: a settled entry; _acquire_copy_slot enters
\* _CopyLane.acquire and makes its first pass
EntryAcquire(e) ==
    /\ pc[e] = "entry"
    /\ todo[e] > 0 /\ running[e]
    /\ AfterAcquire(e, acquire_enter(lane_for(lanes, source[e]), e,
                                     stop_event[e]))
    /\ UNCHANGED sideVars
    /\ UNCHANGED <<source, stop_event, held, bypass, running, pcStop,
                   copyResult>>

\* _CopyLane.acquire: a pass after condition.wait(timeout=0.5) returned
AcquireWake(e) ==
    /\ pc[e] = "acquiring"
    /\ AfterAcquire(e, acquire_pass(lane_for(lanes, source[e]), e,
                                    stop_event[e]))
    /\ UNCHANGED sideVars
    /\ UNCHANGED <<source, stop_event, held, bypass, running, pcStop,
                   copyResult>>

\* copy_backup raises CopyCancelled: the copier saw the cancel signal at a
\* chunk boundary
CopyCancel(e) ==
    /\ pc[e] = "copying"
    /\ stop_event[e]
    /\ copyResult' = [copyResult EXCEPT ![e] = "cancelled"]
    /\ pc' = [pc EXCEPT ![e] = "finally"]
    /\ UNCHANGED sideVars
    /\ UNCHANGED <<source, lanes, stop_event, held, bypass, running, pcStop,
                   pending, todo, copy_slot_acquired>>

\* copy_backup returns (a path, or None after a failure), or raises an
\* exception other than CopyCancelled (build_destination_path is outside
\* its try); the finally block runs either way, and the outer
\* "except Exception" drops the file like a finished one
CopyReturn(e) ==
    /\ pc[e] = "copying"
    /\ \E outcome \in {"returned", "raised"} :
          copyResult' = [copyResult EXCEPT ![e] = outcome]
    /\ pc' = [pc EXCEPT ![e] = "finally"]
    /\ UNCHANGED sideVars
    /\ UNCHANGED <<source, lanes, stop_event, held, bypass, running, pcStop,
                   pending, todo, copy_slot_acquired>>

\* _process_pending_files: finally: _release_copy_slot; then the file
\* leaves the queue, and a cancelled copy breaks out of the loop
CopyFinally(e) ==
    /\ pc[e] = "finally"
    /\ lanes' = coord_release(lanes, source[e], e)
    /\ pending' = [pending EXCEPT ![e] = @ - 1]
    /\ IF copyResult[e] = "cancelled"
       THEN /\ todo' = [todo EXCEPT ![e] = 0]
            /\ pc' = [pc EXCEPT ![e] = "loop"]
       ELSE /\ todo' = [todo EXCEPT ![e] = @ - 1]
            /\ pc' = [pc EXCEPT ![e] = "entry"]
    /\ copyResult' = [copyResult EXCEPT ![e] = "none"]
    /\ UNCHANGED sideVars
    /\ UNCHANGED <<source, stop_event, held, bypass, running, pcStop,
                   copy_slot_acquired>>

\* stop(): self._stop_event.set()
StopSetEvent(e) ==
    /\ pcStop[e] = "idle"
    /\ stop_event' = [stop_event EXCEPT ![e] = TRUE]
    /\ pcStop' = [pcStop EXCEPT ![e] = "event"]
    /\ UNCHANGED sideVars
    /\ UNCHANGED <<source, lanes, pc, held, bypass, running, pending, todo,
                   copyResult, copy_slot_acquired>>

\* stop(): self.running = False
StopClearRunning(e) ==
    /\ pcStop[e] = "event"
    /\ running' = [running EXCEPT ![e] = FALSE]
    /\ pcStop' = [pcStop EXCEPT ![e] = "flag"]
    /\ UNCHANGED sideVars
    /\ UNCHANGED <<laneVars, pending, todo, copyResult, copy_slot_acquired>>

\* stop(): self._abandon_copy_slot()
StopAbandon(e) ==
    /\ pcStop[e] = "flag"
    /\ lanes' = coord_abandon(lanes, source[e], e)
    /\ pcStop' = [pcStop EXCEPT ![e] = "done"]
    /\ UNCHANGED sideVars
    /\ UNCHANGED <<source, pc, stop_event, held, bypass, running, pending,
                   todo, copyResult, copy_slot_acquired>>

Next ==
    \E e \in EngineIds :
        \/ RunClear(e)
        \/ RunStart(e)
        \/ LoopTick(e)
        \/ RunExit(e)
        \/ EntryEnd(e)
        \/ EntrySkip(e)
        \/ EntryAcquire(e)
        \/ AcquireWake(e)
        \/ CopyCancel(e)
        \/ CopyReturn(e)
        \/ CopyFinally(e)
        \/ StopSetEvent(e)
        \/ StopClearRunning(e)
        \/ StopAbandon(e)

Spec == Init /\ [][Next]_vars

\* the steps of the worker thread of an engine
Worker(e) ==
    \/ RunClear(e)
    \/ RunStart(e)
    \/ LoopTick(e)
    \/ RunExit(e)
    \/ EntryEnd(e)
    \/ EntrySkip(e)
    \/ EntryAcquire(e)
    \/ AcquireWake(e)
    \/ CopyCancel(e)
    \/ CopyReturn(e)
    \/ CopyFinally(e)

\* the steps of stop() once it has been called
Stopping(e) == StopClearRunning(e) \/ StopAbandon(e)

\* the engines with threads that keep running: a worker that can take a
\* step takes one, a stop() that was called runs to its end
SpecStop ==
    /\ Init /\ [][Next]_vars
    /\ \A e \in EngineIds : WF_vars(Worker(e)) /\ WF_vars(Stopping(e))

(***************************************************************************)
(* SpecSettle: one engine (days or sync mode, nobody else on its lane)     *)
(* debouncing its pending files while a writer appends to them             *)
(***************************************************************************)
\* the PendingFile of path in pending_files
InfoOf(pf, path) == pf[CHOOSE i \in 1..Len(pf) : pf[i].path = path]

PendingPaths(pf) == {pf[i].path : i \in 1..Len(pf)}

\* _register_pending_file at time t: a path not mirrored at its present
\* size and not yet pending is appended with stable_since = t
register_pending_file(pf, path, t) ==
    IF existing_backups[path] # None
         /\ existing_backups[path] = src_files[path].size
    THEN pf
    ELSE IF path \in PendingPaths(pf) THEN pf
    ELSE Append(pf, [path |-> path,
                     last_size |-> src_files[path].size,
                     last_mtime |-> src_files[path].mtime,
                     stable_since |-> t])

\* paths registered one after the other, in ascending order
RECURSIVE RegisterAll(_, _, _)
RegisterAll(pf, paths, t) ==
    IF paths = {} THEN pf
    ELSE LET path == CHOOSE x \in paths : \A y \in paths : x <= y
         IN  RegisterAll(register_pending_file(pf, path, t),
                         paths \ {path}, t)

\* the seconds pass while the engine sleeps or copies
Advance ==
    /\ tick_pc \in {"sleep", "copying"}
    /\ clock < MaxClock
    /\ clock' = clock + 1
    /\ UNCHANGED outsideSettle
    /\ UNCHANGED <<src_files, event_queue, pending_files, existing_backups,
                   tick_pc, now, snapshot, processed_paths, wake_at,
                   current_file>>

\* a writer appends to a source file; the observer queues the event
Write(f) ==
    /\ src_files[f].size < MaxSize
    /\ src_files[f].mtime < clock
    /\ src_files' = [src_files EXCEPT ![f] = [size |-> @.size + 1,
                                              mtime |-> clock]]
    /\ event_queue' = event_queue \cup {f}
    /\ UNCHANGED outsideSettle
    /\ UNCHANGED <<clock, pending_files, existing_backups, tick_pc, now,
                   snapshot, processed_paths, wake_at, current_file>>

\* run(): start-up: _seed_initial_pending registers the source files
SettleRun ==
    /\ tick_pc = "start"
    /\ pending_files' = RegisterAll(pending_files, Paths, clock)
    /\ tick_pc' = "sleep"
    /\ wake_at' = clock
    /\ UNCHANGED outsideSettle
    /\ UNCHANGED <<clock, src_files, event_queue, existing_backups, now,
                   snapshot, processed_paths, current_file>>

\* run(): a pass of the loop: _drain_event_queue, then
\* _process_pending_files takes `now` and the snapshot
TickStart ==
    /\ tick_pc = "sleep"
    /\ clock >= wake_at
    /\ LET drained == RegisterAll(pending_files, event_queue, clock)
       IN  /\ pending_files' = drained
           /\ event_queue' = {}
           /\ IF drained = <<>>
              THEN /\ wake_at' = clock + 1
                   /\ UNCHANGED <<tick_pc, now, snapshot>>
              ELSE /\ now' = clock
                   /\ snapshot' = [i \in 1..Len(drained) |-> drained[i].path]
                   /\ tick_pc' = "scan"
                   /\ UNCHANGED wake_at
    /\ processed_paths' = {}
    /\ UNCHANGED outsideSettle
    /\ UNCHANGED <<clock, src_files, existing_backups, current_file>>

\* the file heads the snapshot and the engine is at the top of the loop
Visiting(f) == tick_pc = "scan" /\ snapshot # <<>> /\ Head(snapshot) = f

\* pending_files with the PendingFile of path replaced by info
WithInfo(pf, path, info) ==
    [i \in 1..Len(pf) |-> IF pf[i].path = path THEN info ELSE pf[i]]

\* _process_pending_files: an entry whose (size, mtime) changed: the
\* PendingFile takes the new values and stable_since = now
EntryChanged(f) ==
    /\ Visiting(f)
    /\ LET info == InfoOf(pending_files, f)
           stat == src_files[f]
       IN  /\ stat.size # info.last_size \/ stat.mtime # info.last_mtime
           /\ pending_files' = WithInfo(pending_files, f,
                                  [info EXCEPT !.last_size = stat.size,
                                               !.last_mtime = stat.mtime,
                                               !.stable_since = now])
    /\ snapshot' = Tail(snapshot)
    /\ UNCHANGED outsideSettle
    /\ UNCHANGED <<clock, src_files, event_queue, existing_backups, tick_pc,
                   now, processed_paths, wake_at, current_file>>

\* _process_pending_files: an unchanged entry that has not settled, or one
\* already mirrored at its size (dropped)
EntryUnsettled(f) ==
    /\ Visiting(f)
    /\ LET info == InfoOf(pending_files, f)
           stat == src_files[f]
       IN  /\ stat.size = info.last_size /\ stat.mtime = info.last_mtime
           /\ IF now - info.stable_since >= DEFAULT_SETTLE_SECONDS
              THEN /\ existing_backups[f] # None
                   /\ existing_backups[f] = stat.size
                   /\ processed_paths' = processed_paths \cup {f}
              ELSE UNCHANGED processed_paths
    /\ snapshot' = Tail(snapshot)
    /\ UNCHANGED outsideSettle
    /\ UNCHANGED <<clock, src_files, event_queue, pending_files,
                   existing_backups, tick_pc, now, wake_at, current_file>>

\* _process_pending_files: an unchanged entry with
\* now - stable_since >= settle_seconds: the slot is free, copy_backup
\* starts
EntryCopy(f) ==
    /\ Visiting(f)
    /\ LET info == InfoOf(pending_files, f)
           stat == src_files[f]
       IN  /\ stat.size = info.last_size /\ stat.mtime = info.last_mtime
           /\ now - info.stable_since >= DEFAULT_SETTLE_SECONDS
           /\ ~(existing_backups[f] # None /\ existing_backups[f] = stat.size)
    /\ tick_pc' = "copying"
    /\ current_file' = f
    /\ UNCHANGED outsideSettle
    /\ UNCHANGED <<clock, src_files, event_queue, pending_files,
                   existing_backups, now, snapshot, processed_paths,
                   wake_at>>

\* copy_backup returns a path: the index takes the size stat() gave before
\* the copy, the file is processed
CopyDone ==
    /\ tick_pc = "copying"
    /\ existing_backups' =
          [existing_backups EXCEPT ![current_file] =
              InfoOf(pending_files, current_file).last_size]
    /\ processed_paths' = processed_paths \cup {current_file}
    /\ snapshot' = Tail(snapshot)
    /\ current_file' = 0
    /\ tick_pc' = "scan"
    /\ UNCHANGED outsideSettle
    /\ UNCHANGED <<clock, src_files, event_queue, pending_files, now,
                   wake_at>>

\* _process_pending_files: the snapshot is exhausted: the processed paths
\* leave pending_files; run() sleeps one second
TickEnd ==
    /\ tick_pc = "scan"
    /\ snapshot = <<>>
    /\ pending_files' = SelectSeq(pending_files,
                                  LAMBDA pf : pf.path \notin processed_paths)
    /\ processed_paths' = {}
    /\ tick_pc' = "sleep"
    /\ wake_at' = clock + 1
    /\ UNCHANGED outsideSettle
    /\ UNCHANGED <<clock, src_files, event_queue, existing_backups, now,
                   snapshot, current_file>>

SettleNext ==
    \/ Advance
    \/ SettleRun
    \/ TickStart
    \/ TickEnd
    \/ CopyDone
    \/ \E f \in Paths :
          \/ Write(f)
          \/ EntryChanged(f)
          \/ EntryUnsettled(f)
          \/ EntryCopy(f)

\* the coordinator and the engines of Spec, at rest
CoordIdle ==
    /\ source = [e \in EngineIds |-> "srcA"]
    /\ lanes = [k \in {} |-> NewLane]
    /\ pc = [e \in EngineIds |-> "created"]
    /\ stop_event = [e \in EngineIds |-> FALSE]
    /\ held = {}
    /\ bypass = [c \in ConfigIds |-> 0]
    /\ EngineInit

\* the engine of SpecSettle constructed, everything else at rest
InitSettle ==
    CoordIdle /\ SettleInit /\ CopyAtRest /\ RetentionAtRest /\ LaterAtRest

SpecSettle == InitSettle /\ [][SettleNext]_vars

(***************************************************************************)
(* SpecCopy: copy_backup called again and again on one source file by an   *)
(* engine that may be stopped at any moment; nobody else writes to the     *)
(* source or the destination                                               *)
(***************************************************************************)
\* before the first call: the target absent, an earlier content or the
\* source already; its .part absent or the first P blocks of a file that
\* agrees with the source
CopyInit ==
    /\ source_len \in 0..MaxLen
    /\ \E t \in {Absent, Src} \cup {Old(k) : k \in 0..MaxLen} :
       \E p \in {Absent} \cup {Tagged(k) : k \in 0..MaxLen} :
           files = [q \in DestPaths |->
                       IF q = <<0, "final">> THEN t
                       ELSE IF q = <<0, "part">> THEN p
                       ELSE Absent]
    /\ stamp = 1
    /\ copy_pc = "idle"
    /\ destination_path = 0
    /\ overwrite_existing = FALSE
    /\ start_pos = 0
    /\ copied = 0
    /\ cancel_event = FALSE
    /\ copied_path = "none"
    /\ sync_history = {}
    /\ target_before = Absent
    /\ attempts = 0

InitCopy ==
    CoordIdle /\ SettleInit /\ CopyInit /\ RetentionAtRest /\ LaterAtRest

\* build_destination_path: the target, or a name minted from the second if
\* the target exists and must not be overwritten
build_destination_path(fs, second, overwrite) ==
    IF fs[<<0, "final">>] # Absent
    THEN IF overwrite THEN 0 ELSE second
    ELSE 0

\* mutant of temp_path: the bytes go to the target itself
temp_path_is_target(name) == <<name, "final">>

\* copy_backup: temp_path, the destination path with ".part" appended
temp_path(name) == <<name, "part">>

\* mutant of resume_plan: the resumed .part is opened for writing
resume_plan_truncating(temp, total_size) ==
    IF temp # Absent /\ Len(temp) < total_size
    THEN [mode |-> "wb", start_pos |-> Len(temp)]
    ELSE [mode |-> "wb", start_pos |-> 0]

\* copy_backup: a shorter .part is resumed at its size in mode "ab",
\* anything else restarts at 0 in mode "wb"
resume_plan(temp, total_size) ==
    IF temp # Absent /\ Len(temp) < total_size
    THEN [mode |-> "ab", start_pos |-> Len(temp)]
    ELSE [mode |-> "wb", start_pos |-> 0]

\* open(mode) on the .part: "wb" creates or truncates, "ab" creates or
\* keeps
opened(temp, mode) ==
    IF mode = "wb" \/ temp = Absent THEN <<>> ELSE temp

\* mutant of should_cancel: the signal is not looked at
should_cancel_blind(event) == FALSE

\* copy_file_with_progress: should_cancel
should_cancel(event) == event

\* src.read(COPY_CHUNK_SIZE) at position pos of the source
read_chunk(pos) ==
    LET last == IF pos + COPY_CHUNK_SIZE < source_len
                THEN pos + COPY_CHUNK_SIZE ELSE source_len
    IN  SubSeq(Src, pos + 1, last)

\* os.replace(a, b)
replaced(fs, a, b) ==
    LET moved == [fs EXCEPT ![a] = Absent]
    IN  [moved EXCEPT ![b] = fs[a]]

\* the second of datetime.now() passes, between two calls
StampTick ==
    /\ copy_pc = "idle"
    /\ stamp < MaxStamp
    /\ stamp' = stamp + 1
    /\ UNCHANGED outsideCopy
    /\ UNCHANGED <<source_len, files, copy_pc, destination_path,
                   overwrite_existing, start_pos, copied, cancel_event,
                   copied_path, sync_history, target_before, attempts>>

\* FileSyncManager.stop: the cancel signal is set
StopSignal ==
    /\ ~cancel_event
    /\ cancel_event' = TRUE
    /\ UNCHANGED outsideCopy
    /\ UNCHANGED <<source_len, files, stamp, copy_pc, destination_path,
                   overwrite_existing, start_pos, copied, copied_path,
                   sync_history, target_before, attempts>>

\* copy_backup is called: the path is built, the .part looked at and
\* opened, copy_file_with_progress is at the top of its loop
CopyBackupCall(overwrite) ==
    /\ copy_pc = "idle"
    /\ attempts < MaxAttempts
    /\ LET name == build_destination_path(files, stamp, overwrite)
           plan == resume_plan(files[temp_path(name)], source_len)
       IN  /\ destination_path' = name
           /\ target_before' = files[<<name, "final">>]
           /\ start_pos' = plan.start_pos
           /\ copied' = plan.start_pos
           /\ files' = [files EXCEPT ![temp_path(name)] =
                                         opened(@, plan.mode)]
    /\ overwrite_existing' = overwrite
    /\ attempts' = attempts + 1
    /\ copied_path' = "none"
    /\ copy_pc' = "loop"
    /\ UNCHANGED outsideCopy
    /\ UNCHANGED <<source_len, stamp, cancel_event, sync_history>>

\* copy_file_with_progress: should_cancel() is true, before a read or
\* after a write: CopyCancelled leaves copy_backup
CancelRaise ==
    /\ copy_pc \in {"loop", "written"}
    /\ should_cancel(cancel_event)
    /\ copy_pc' = "cancelled"
    /\ UNCHANGED outsideCopy
    /\ UNCHANGED <<source_len, files, stamp, destination_path,
                   overwrite_existing, start_pos, copied, cancel_event,
                   copied_path, sync_history, target_before, attempts>>

\* copy_file_with_progress: should_cancel() is false
CancelPass ==
    /\ copy_pc \in {"loop", "written"}
    /\ ~should_cancel(cancel_event)
    /\ copy_pc' = IF copy_pc = "loop" THEN "read" ELSE "loop"
    /\ UNCHANGED outsideCopy
    /\ UNCHANGED <<source_len, files, stamp, destination_path,
                   overwrite_existing, start_pos, copied, cancel_event,
                   copied_path, sync_history, target_before, attempts>>

\* copy_file_with_progress: a chunk is read and written, or the read
\* returns nothing and the loop ends
ReadWrite ==
    /\ copy_pc = "read"
    /\ LET chunk == read_chunk(copied)
       IN  IF chunk = <<>>
           THEN /\ copy_pc' = "finish"
                /\ UNCHANGED <<files, copied>>
           ELSE /\ files' = [files EXCEPT
                               ![temp_path(destination_path)] = @ \o chunk]
                /\ copied' = copied + Len(chunk)
                /\ copy_pc' = "written"
    /\ UNCHANGED outsideCopy
    /\ UNCHANGED <<source_len, stamp, destination_path, overwrite_existing,
                   start_pos, cancel_event, copied_path, sync_history,
                   target_before, attempts>>

\* copy_file_with_progress: the read or the write raises, after k blocks
\* of the chunk reached the .part: copy_backup logs it and returns None
WriteFails ==
    /\ copy_pc = "read"
    /\ LET chunk == read_chunk(copied)
       IN  \E k \in 0..Len(chunk) :
               /\ k < Len(chunk) \/ chunk = <<>>
               /\ files' = [files EXCEPT
                              ![temp_path(destination_path)] =
                                  @ \o SubSeq(chunk, 1, k)]
    /\ copied_path' = "none"
    /\ copy_pc' = "returned"
    /\ UNCHANGED outsideCopy
    /\ UNCHANGED <<source_len, stamp, destination_path, overwrite_existing,
                   start_pos, copied, cancel_event, sync_history,
                   target_before, attempts>>

\* copy_backup after the copy: an existing target is unlinked (or the
\* unlink raises OSError, which is passed over) if it may be overwritten;
\* otherwise copy_backup returns None
Finish ==
    /\ copy_pc = "finish"
    /\ LET target == <<destination_path, "final">>
       IN  IF files[target] = Absent
           THEN /\ copy_pc' = "replace"
                /\ UNCHANGED <<files, copied_path>>
           ELSE IF overwrite_existing
                THEN /\ \/ files' = [files EXCEPT ![target] = Absent]
                        \/ UNCHANGED files
                     /\ copy_pc' = "replace"
                     /\ UNCHANGED copied_path
                ELSE /\ copied_path' = "none"
                     /\ copy_pc' = "returned"
                     /\ UNCHANGED files
    /\ UNCHANGED outsideCopy
    /\ UNCHANGED <<source_len, stamp, destination_path, overwrite_existing,
                   start_pos, copied, cancel_event, sync_history,
                   target_before, attempts>>

\* copy_backup: os.replace(temp_path, destination_path)
Replace ==
    /\ copy_pc = "replace"
    /\ files' = replaced(files, temp_path(destination_path),
                         <<destination_path, "final">>)
    /\ copy_pc' = "copystat"
    /\ UNCHANGED outsideCopy
    /\ UNCHANGED <<source_len, stamp, destination_path, overwrite_existing,
                   start_pos, copied, cancel_event, copied_path,
                   sync_history, target_before, attempts>>

\* copy_backup: shutil.copystat, then the path is returned
Copystat ==
    /\ copy_pc = "copystat"
    /\ copied_path' = "path"
    /\ copy_pc' = "returned"
    /\ UNCHANGED outsideCopy
    /\ UNCHANGED <<source_len, files, stamp, destination_path,
                   overwrite_existing, start_pos, copied, cancel_event,
                   sync_history, target_before, attempts>>

\* copy_backup: os.replace or copystat raises: logged, None is returned
ReplaceFails ==
    /\ copy_pc \in {"replace", "copystat"}
    /\ copied_path' = "none"
    /\ copy_pc' = "returned"
    /\ UNCHANGED outsideCopy
    /\ UNCHANGED <<source_len, files, stamp, destination_path,
                   overwrite_existing, start_pos, copied, cancel_event,
                   sync_history, target_before, attempts>>

\* _process_pending_files after copy_backup returned: a path is recorded
\* in the history, None is not
EngineAfterCopy ==
    /\ copy_pc = "returned"
    /\ sync_history' = IF copied_path = "path"
                       THEN sync_history \cup {destination_path}
                       ELSE sync_history
    /\ copy_pc' = "idle"
    /\ UNCHANGED outsideCopy
    /\ UNCHANGED <<source_len, files, stamp, destination_path,
                   overwrite_existing, start_pos, copied, cancel_event,
                   copied_path, target_before, attempts>>

\* _process_pending_files catches CopyCancelled and breaks; the engine is
\* started again later and run() clears the signal
EngineAfterCancel ==
    /\ copy_pc = "cancelled" \/ (copy_pc = "idle" /\ cancel_event)
    /\ cancel_event' = FALSE
    /\ copy_pc' = "idle"
    /\ UNCHANGED outsideCopy
    /\ UNCHANGED <<source_len, files, stamp, destination_path,
                   overwrite_existing, start_pos, copied, copied_path,
                   sync_history, target_before, attempts>>

CopyNext ==
    \/ StampTick
    \/ StopSignal
    \/ \E overwrite \in BOOLEAN : CopyBackupCall(overwrite)
    \/ CancelRaise
    \/ CancelPass
    \/ ReadWrite
    \/ WriteFails
    \/ Finish
    \/ Replace
    \/ Copystat
    \/ ReplaceFails
    \/ EngineAfterCopy
    \/ EngineAfterCancel

SpecCopy == InitCopy /\ [][CopyNext]_vars

(***************************************************************************)
(* SpecRetention: one pass of _enforce_days_retention over a destination   *)
(* nobody else touches, on a machine in some time zone                     *)
(***************************************************************************)
\* datetime.utcnow() at the pass
UtcNow == MaxTime

Times == 0..MaxTime

RECURSIVE Newest(_)
\* max() over a non-empty set of mtimes
Newest(S) ==
    LET x == CHOOSE y \in S : TRUE
    IN  IF S = {x} THEN x
        ELSE LET rest == Newest(S \ {x})
             IN  IF x > rest THEN x ELSE rest

\* the destination holds files and directories with mtimes up to now, some
\* with a history value, on a machine whose local time is tz_offset ahead
\* of UTC
RetentionInit ==
    /\ tz_offset \in (0 - MaxTz)..MaxTz
    /\ retention_days \in 0..MaxDays
    /\ entries \in [Entries ->
                      [exists : {TRUE},
                       mtimes : {S \in SUBSET Times :
                                    Cardinality(S) \in {1, 2}}]]
    /\ history_values \in [Entries -> {NoValue, Unparseable} \cup Times]
    /\ ret_pc = "idle"
    /\ ret_idx = 1
    /\ threshold = 0
    /\ history_keys_to_remove = {}
    /\ delete_failed = {}

InitRetention ==
    CoordIdle /\ SettleInit /\ CopyAtRest /\ RetentionInit /\ LaterAtRest

\* datetime.fromtimestamp(t): the naive local time of an epoch time
fromtimestamp(t) == t + tz_offset

\* datetime.fromisoformat of a value the engine wrote with
\* datetime.utcnow().isoformat(): the naive UTC time
fromisoformat(value) == value

\* _resolve_entry_timestamp: the history value if there is one and it
\* parses; else the newest mtime of the entry, as local time; the epoch
\* if the entry is gone
resolve_entry_timestamp(entry, history_value) ==
    IF history_value # NoValue /\ history_value # Unparseable
    THEN fromisoformat(history_value)
    ELSE IF ~entry.exists THEN 0
    ELSE fromtimestamp(Newest(entry.mtimes))

\* _enforce_days_retention up to the loop: nothing to do for
\* retention_days <= 0; else threshold = utcnow() - retention_days days
RetentionStart ==
    /\ ret_pc = "idle"
    /\ IF retention_days <= 0
       THEN /\ ret_pc' = "done"
            /\ UNCHANGED threshold
       ELSE /\ threshold' = UtcNow - retention_days * UnitsPerDay
            /\ ret_pc' = "scan"
    /\ UNCHANGED outsideRetention
    /\ UNCHANGED <<tz_offset, retention_days, entries, history_values,
                   ret_idx, history_keys_to_remove, delete_failed>>

\* the loop body for an entry at or after the threshold: it stays
VisitKeep ==
    /\ ret_pc = "scan"
    /\ ret_idx <= NumEntries
    /\ ~(resolve_entry_timestamp(entries[ret_idx], history_values[ret_idx])
            < threshold)
    /\ ret_idx' = ret_idx + 1
    /\ UNCHANGED outsideRetention
    /\ UNCHANGED <<tz_offset, retention_days, entries, history_values,
                   ret_pc, threshold, history_keys_to_remove, delete_failed>>

\* the loop body for an entry before the threshold: _delete_entry, and the
\* key is noted for removal
VisitDelete ==
    /\ ret_pc = "scan"
    /\ ret_idx <= NumEntries
    /\ resolve_entry_timestamp(entries[ret_idx], history_values[ret_idx])
          < threshold
    /\ entries' = [entries EXCEPT ![ret_idx].exists = FALSE]
    /\ history_keys_to_remove' = history_keys_to_remove \cup {ret_idx}
    /\ ret_idx' = ret_idx + 1
    /\ UNCHANGED outsideRetention
    /\ UNCHANGED <<tz_offset, retention_days, history_values, ret_pc,
                   threshold, delete_failed>>

\* the loop body for an entry before the threshold whose _delete_entry
\* raises: the exception is logged, the entry and its key stay
VisitDeleteFails ==
    /\ ret_pc = "scan"
    /\ ret_idx <= NumEntries
    /\ resolve_entry_timestamp(entries[ret_idx], history_values[ret_idx])
          < threshold
    /\ delete_failed' = delete_failed \cup {ret_idx}
    /\ ret_idx' = ret_idx + 1
    /\ UNCHANGED outsideRetention
    /\ UNCHANGED <<tz_offset, retention_days, entries, history_values,
                   ret_pc, threshold, history_keys_to_remove>>

\* after the loop: the noted keys leave sync_history
PopHistory ==
    /\ ret_pc = "scan"
    /\ ret_idx > NumEntries
    /\ history_values' = [e \in Entries |->
                            IF e \in history_keys_to_remove THEN NoValue
                            ELSE history_values[e]]
    /\ ret_pc' = "done"
    /\ UNCHANGED outsideRetention
    /\ UNCHANGED <<tz_offset, retention_days, entries, ret_idx, threshold,
                   history_keys_to_remove, delete_failed>>

RetentionNext ==
    \/ RetentionStart
    \/ VisitKeep
    \/ VisitDelete
    \/ VisitDeleteFails
    \/ PopHistory

SpecRetention == InitRetention /\ [][RetentionNext]_vars

(***************************************************************************)
(* SpecCount: one pass of _enforce_count_retention over a destination      *)
(* nobody else touches; entry 2 may lie inside the directory entry 1       *)
(***************************************************************************)
\* an entry that is not there
NoEntry == [exists |-> FALSE, mtimes |-> {0}]

\* files and directories with mtimes up to now, some with a history value;
\* a directory's mtimes include those of what lies inside it
CountInit ==
    /\ tz_offset \in (0 - MaxTz)..MaxTz
    /\ retention_limit \in 0..MaxLimit
    /\ inside \in BOOLEAN
    /\ \E own \in [Entries -> Times] : \E there \in [Entries -> BOOLEAN] :
          /\ inside => \A e \in Entries : there[e]
          /\ entries = [e \in Entries |->
                IF ~there[e] THEN NoEntry
                ELSE [exists |-> TRUE,
                      mtimes |-> IF e = 1 /\ inside
                                 THEN {own[1], own[2]} ELSE {own[e]}]]
    /\ history_values \in [Entries -> {NoValue, Unparseable} \cup Times]
    /\ \A e \in Entries : ~entries[e].exists => history_values[e] = NoValue
    /\ history_before = history_values
    /\ delete_failed = {}
    /\ file_entries = <<>>
    /\ targets = <<>>
    /\ count_pc = "idle"
    /\ retention_days = 0
    /\ ret_pc = "idle"
    /\ ret_idx = 1
    /\ threshold = 0
    /\ history_keys_to_remove = {}

InitCount ==
    /\ CoordIdle /\ SettleInit /\ CopyAtRest /\ CountInit /\ MirrorAtRest
    /\ MoreAtRest

RECURSIVE CollectEntries(_)
\* the loop over _iter_backup_entries from entry e on: (entry, synced_at)
\* of every entry that exists, a directory before what lies inside it
CollectEntries(e) ==
    IF e > NumEntries THEN <<>>
    ELSE (IF entries[e].exists
          THEN <<[entry |-> e,
                  synced_at |-> resolve_entry_timestamp(entries[e],
                                                        history_values[e])]>>
          ELSE <<>>) \o CollectEntries(e + 1)

\* item inserted into a sequence sorted newest first, after the items that
\* are as new: sorted() is stable, reverse=True included
InsertNewestFirst(sorted, item) ==
    LET before == SelectSeq(sorted,
                            LAMBDA x : x.synced_at >= item.synced_at)
        after  == SelectSeq(sorted,
                            LAMBDA x : x.synced_at < item.synced_at)
    IN  before \o <<item>> \o after

RECURSIVE SortNewestFirst(_)
\* sorted(file_entries, key=lambda item: item[1], reverse=True)
SortNewestFirst(seq) ==
    IF seq = <<>> THEN <<>>
    ELSE InsertNewestFirst(SortNewestFirst(SubSeq(seq, 1, Len(seq) - 1)),
                           seq[Len(seq)])

\* sorted_entries[retention_limit:]
overflow(sorted, limit) == SubSeq(sorted, limit + 1, Len(sorted))

\* _enforce_count_retention up to the deletions: nothing to do for a limit
\* <= 0 or for no more entries than the limit
CountStart ==
    /\ count_pc = "idle"
    /\ IF retention_limit <= 0
       THEN /\ count_pc' = "done"
            /\ UNCHANGED <<file_entries, targets>>
       ELSE LET found == CollectEntries(1)
            IN  /\ file_entries' = found
                /\ IF Len(found) <= retention_limit
                   THEN /\ count_pc' = "done"
                        /\ UNCHANGED targets
                   ELSE /\ targets' = overflow(SortNewestFirst(found),
                                               retention_limit)
                        /\ count_pc' = "delete"
    /\ UNCHANGED outsideCount
    /\ UNCHANGED <<tz_offset, entries, history_values, delete_failed,
                   inside, retention_limit, history_before>>

\* _delete_entry of the next target: a directory goes with what lies
\* inside it; the key of the target leaves sync_history
CountDelete ==
    /\ count_pc = "delete"
    /\ targets # <<>>
    /\ LET e == Head(targets).entry
       IN  /\ entries[e].exists
           /\ entries' = [x \in Entries |->
                            IF x = e \/ (e = 1 /\ inside /\ x = 2)
                            THEN [entries[x] EXCEPT !.exists = FALSE]
                            ELSE entries[x]]
           /\ history_values' = [history_values EXCEPT ![e] = NoValue]
    /\ targets' = Tail(targets)
    /\ UNCHANGED outsideCount
    /\ UNCHANGED <<tz_offset, delete_failed, inside, retention_limit,
                   file_entries, count_pc, history_before>>

\* _delete_entry of the next target raises: the target went with its
\* directory (unlink: FileNotFoundError), or the deletion fails; the
\* exception is logged and the key stays
CountDeleteFails ==
    /\ count_pc = "delete"
    /\ targets # <<>>
    /\ LET e == Head(targets).entry
       IN  delete_failed' = IF entries[e].exists
                            THEN delete_failed \cup {e}
                            ELSE delete_failed
    /\ targets' = Tail(targets)
    /\ UNCHANGED outsideCount
    /\ UNCHANGED <<tz_offset, entries, history_values, inside,
                   retention_limit, file_entries, count_pc, history_before>>

\* the loop over the targets is over
CountReturn ==
    /\ count_pc = "delete"
    /\ targets = <<>>
    /\ count_pc' = "done"
    /\ UNCHANGED outsideCount
    /\ UNCHANGED <<tz_offset, entries, history_values, delete_failed,
                   inside, retention_limit, file_entries, targets,
                   history_before>>

CountNext ==
    \/ CountStart
    \/ CountDelete
    \/ CountDeleteFails
    \/ CountReturn

SpecCount == InitCount /\ [][CountNext]_vars

(***************************************************************************)
(* SpecMirror: one engine in sync mode, alone on its lane, while files of  *)
(* the source root are created, changed, deleted and moved; a pending file *)
(* settles after some ticks                                                *)
(***************************************************************************)
\* the engine is constructed over a source and a destination that agree
\* on the files both hold
MirrorInit ==
    /\ src_tree \in [MirrorPaths -> 0..MaxFileSize]
    /\ dst_tree \in [MirrorPaths -> 0..MaxFileSize]
    /\ \A f \in MirrorPaths :
          dst_tree[f] # 0 => dst_tree[f] = src_tree[f]
    /\ mirror_history = {f \in MirrorPaths : dst_tree[f] # 0}
    /\ mirror_backups = [f \in MirrorPaths |-> None]
    /\ file_queue = {}
    /\ delete_queue = {}
    /\ mirror_pending = {}
    /\ mirror_snapshot = {}
    /\ mirror_pc = "start"
    /\ copy_of = <<0, 0>>
    /\ rescan_interval \in {0, 1}
    /\ unlinked = {}
    /\ ops = 0

InitMirror ==
    /\ CoordIdle /\ SettleInit /\ CopyAtRest /\ RetentionAtRest
    /\ CountAtRest /\ MirrorInit /\ MoreAtRest

\* _register_pending_file: a file that exists and is not mirrored at its
\* present size becomes pending
mirror_register(pending_set, backups, f) ==
    IF src_tree[f] = 0 THEN pending_set
    ELSE IF backups[f] # None /\ backups[f] = src_tree[f] THEN pending_set
    ELSE pending_set \cup {f}

\* the files of a set registered one after the other
mirror_register_all(pending_set, backups, paths) ==
    pending_set \cup {f \in paths :
                        mirror_register({}, backups, f) = {f}}

\* mutant of handle_source_deletion: the target is left alone
handle_source_deletion_keeps(tree, f) == tree

\* _handle_source_deletion: the target at the same relative path is
\* unlinked
handle_source_deletion(tree, f) == [tree EXCEPT ![f] = 0]

\* run(): _drain_event_queue, the first call of a loop pass
after_file_queue(pending_set, backups, paths) ==
    mirror_register_all(pending_set, backups, paths)

\* a file appears in the source: on_created
SourceCreate(f, size) ==
    /\ ops < MaxOps
    /\ src_tree[f] = 0
    /\ src_tree' = [src_tree EXCEPT ![f] = size]
    /\ file_queue' = file_queue \cup {f}
    /\ ops' = ops + 1
    /\ UNCHANGED outsideMirror
    /\ UNCHANGED <<dst_tree, mirror_history, mirror_backups, delete_queue,
                   mirror_pending, mirror_snapshot, mirror_pc, copy_of,
                   rescan_interval, unlinked>>

\* a file of the source changes its size: on_modified
SourceModify(f, size) ==
    /\ ops < MaxOps
    /\ src_tree[f] # 0
    /\ src_tree[f] # size
    /\ src_tree' = [src_tree EXCEPT ![f] = size]
    /\ file_queue' = file_queue \cup {f}
    /\ ops' = ops + 1
    /\ UNCHANGED outsideMirror
    /\ UNCHANGED <<dst_tree, mirror_history, mirror_backups, delete_queue,
                   mirror_pending, mirror_snapshot, mirror_pc, copy_of,
                   rescan_interval, unlinked>>

\* a file of the source is deleted: on_deleted
SourceDelete(f) ==
    /\ ops < MaxOps
    /\ src_tree[f] # 0
    /\ src_tree' = [src_tree EXCEPT ![f] = 0]
    /\ delete_queue' = delete_queue \cup {f}
    /\ ops' = ops + 1
    /\ UNCHANGED outsideMirror
    /\ UNCHANGED <<dst_tree, mirror_history, mirror_backups, file_queue,
                   mirror_pending, mirror_snapshot, mirror_pc, copy_of,
                   rescan_interval, unlinked>>

\* a file of the source is moved to another path of the source: on_moved
SourceMove(f, g) ==
    /\ ops < MaxOps
    /\ f # g
    /\ src_tree[f] # 0
    /\ src_tree' = [src_tree EXCEPT ![g] = src_tree[f], ![f] = 0]
    /\ file_queue' = file_queue \cup {g}
    /\ delete_queue' = delete_queue \cup {f}
    /\ ops' = ops + 1
    /\ UNCHANGED outsideMirror
    /\ UNCHANGED <<dst_tree, mirror_history, mirror_backups,
                   mirror_pending, mirror_snapshot, mirror_pc, copy_of,
                   rescan_interval, unlinked>>

\* run(): start-up: get_existing_backups, _seed_initial_pending
MirrorStart ==
    /\ mirror_pc = "start"
    /\ LET found == [f \in MirrorPaths |->
                        IF dst_tree[f] = 0 THEN None ELSE dst_tree[f]]
       IN  /\ mirror_backups' = found
           /\ mirror_pending' =
                 mirror_register_all({}, found, MirrorPaths)
    /\ mirror_pc' = "sleep"
    /\ UNCHANGED outsideMirror
    /\ UNCHANGED <<src_tree, dst_tree, mirror_history, file_queue,
                   delete_queue, mirror_snapshot, copy_of, rescan_interval,
                   unlinked, ops>>

\* run(): a loop pass begins: _drain_event_queue
DrainEventQueue ==
    /\ mirror_pc = "sleep"
    /\ mirror_pending' =
          after_file_queue(mirror_pending, mirror_backups, file_queue)
    /\ file_queue' = {}
    /\ mirror_pc' = "deletes"
    /\ UNCHANGED outsideMirror
    /\ UNCHANGED <<src_tree, dst_tree, mirror_history, mirror_backups,
                   delete_queue, mirror_snapshot, copy_of, rescan_interval,
                   unlinked, ops>>

\* run(): _process_delete_events: every queued path loses its target, its
\* history key and its place in the index
ProcessDeleteEvents ==
    /\ mirror_pc = "deletes"
    /\ dst_tree' = [f \in MirrorPaths |->
                      IF f \in delete_queue
                      THEN handle_source_deletion(dst_tree, f)[f]
                      ELSE dst_tree[f]]
    /\ unlinked' = unlinked \cup {f \in delete_queue : dst_tree[f] # 0}
    /\ mirror_history' = mirror_history \ delete_queue
    /\ mirror_backups' = [f \in MirrorPaths |->
                            IF f \in delete_queue THEN None
                            ELSE mirror_backups[f]]
    /\ delete_queue' = {}
    /\ mirror_pc' = "rescan"
    /\ UNCHANGED outsideMirror
    /\ UNCHANGED <<src_tree, file_queue, mirror_pending, mirror_snapshot,
                   copy_of, rescan_interval, ops>>

\* run(): _should_trigger_rescan is false; the pending files, if any, are
\* about to be visited
RescanSkip ==
    /\ mirror_pc = "rescan"
    /\ mirror_snapshot' = mirror_pending
    /\ mirror_pc' = "pending"
    /\ UNCHANGED outsideMirror
    /\ UNCHANGED <<src_tree, dst_tree, mirror_history, mirror_backups,
                   file_queue, delete_queue, mirror_pending, copy_of,
                   rescan_interval, unlinked, ops>>

\* run(): the rescan interval has passed: _perform_periodic_rescan
\* registers the files of the source
RescanNow ==
    /\ mirror_pc = "rescan"
    /\ rescan_interval > 0
    /\ LET registered == mirror_register_all(mirror_pending, mirror_backups,
                                             MirrorPaths)
       IN  /\ mirror_pending' = registered
           /\ mirror_snapshot' = registered
    /\ mirror_pc' = "pending"
    /\ UNCHANGED outsideMirror
    /\ UNCHANGED <<src_tree, dst_tree, mirror_history, mirror_backups,
                   file_queue, delete_queue, copy_of, rescan_interval,
                   unlinked, ops>>

\* _process_pending_files: the file is gone, or is mirrored at its size:
\* it leaves the pending files
VisitDrop(f) ==
    /\ mirror_pc = "pending"
    /\ f \in mirror_snapshot
    /\ \/ src_tree[f] = 0
       \/ mirror_backups[f] # None /\ mirror_backups[f] = src_tree[f]
    /\ mirror_snapshot' = mirror_snapshot \ {f}
    /\ mirror_pending' = mirror_pending \ {f}
    /\ UNCHANGED outsideMirror
    /\ UNCHANGED <<src_tree, dst_tree, mirror_history, mirror_backups,
                   file_queue, delete_queue, mirror_pc, copy_of,
                   rescan_interval, unlinked, ops>>

\* _process_pending_files: the file changed or has not settled: it stays
VisitWait(f) ==
    /\ mirror_pc = "pending"
    /\ f \in mirror_snapshot
    /\ src_tree[f] # 0
    /\ mirror_snapshot' = mirror_snapshot \ {f}
    /\ UNCHANGED outsideMirror
    /\ UNCHANGED <<src_tree, dst_tree, mirror_history, mirror_backups,
                   file_queue, delete_queue, mirror_pending, mirror_pc,
                   copy_of, rescan_interval, unlinked, ops>>

\* _process_pending_files: the file has settled: copy_backup starts
VisitCopy(f) ==
    /\ mirror_pc = "pending"
    /\ f \in mirror_snapshot
    /\ src_tree[f] # 0
    /\ ~(mirror_backups[f] # None /\ mirror_backups[f] = src_tree[f])
    /\ copy_of' = <<f, src_tree[f]>>
    /\ mirror_pc' = "copying"
    /\ UNCHANGED outsideMirror
    /\ UNCHANGED <<src_tree, dst_tree, mirror_history, mirror_backups,
                   file_queue, delete_queue, mirror_pending,
                   mirror_snapshot, rescan_interval, unlinked, ops>>

\* copy_backup returns. With the source still there the target holds what
\* was read and the index and the history take the file. With the source
\* deleted meanwhile copy_backup returns None (stat or copystat raises),
\* after the rename or before anything was written. The file leaves the
\* pending files
MirrorCopyDone ==
    /\ mirror_pc = "copying"
    /\ LET f == copy_of[1]
       IN  /\ IF src_tree[f] # 0
              THEN /\ dst_tree' = [dst_tree EXCEPT ![f] = copy_of[2]]
                   /\ mirror_backups' =
                         [mirror_backups EXCEPT ![f] = copy_of[2]]
                   /\ mirror_history' = mirror_history \cup {f}
              ELSE /\ \/ dst_tree' = [dst_tree EXCEPT ![f] = copy_of[2]]
                      \/ UNCHANGED dst_tree
                   /\ UNCHANGED <<mirror_backups, mirror_history>>
           /\ mirror_snapshot' = mirror_snapshot \ {f}
           /\ mirror_pending' = mirror_pending \ {f}
    /\ copy_of' = <<0, 0>>
    /\ mirror_pc' = "pending"
    /\ UNCHANGED outsideMirror
    /\ UNCHANGED <<src_tree, file_queue, delete_queue, rescan_interval,
                   unlinked, ops>>

\* _process_pending_files returns; run() sleeps a second
MirrorTickEnd ==
    /\ mirror_pc = "pending"
    /\ mirror_snapshot = {}
    /\ mirror_pc' = "sleep"
    /\ UNCHANGED outsideMirror
    /\ UNCHANGED <<src_tree, dst_tree, mirror_history, mirror_backups,
                   file_queue, delete_queue, mirror_pending,
                   mirror_snapshot, copy_of, rescan_interval, unlinked, ops>>

\* the steps of the engine's worker thread
MirrorEngine ==
    \/ MirrorStart
    \/ DrainEventQueue
    \/ ProcessDeleteEvents
    \/ RescanSkip
    \/ RescanNow
    \/ MirrorCopyDone
    \/ MirrorTickEnd
    \/ \E f \in MirrorPaths : VisitDrop(f) \/ VisitWait(f) \/ VisitCopy(f)

MirrorNext ==
    \/ MirrorStart
    \/ DrainEventQueue
    \/ ProcessDeleteEvents
    \/ RescanSkip
    \/ RescanNow
    \/ MirrorCopyDone
    \/ MirrorTickEnd
    \/ \E f \in MirrorPaths :
          \/ VisitDrop(f)
          \/ VisitWait(f)
          \/ VisitCopy(f)
          \/ SourceDelete(f)
          \/ \E size \in 1..MaxFileSize :
                SourceCreate(f, size) \/ SourceModify(f, size)
          \/ \E g \in MirrorPaths : SourceMove(f, g)

\* the worker thread keeps running: a step it can take is taken
SpecMirror ==
    InitMirror /\ [][MirrorNext]_vars /\ WF_vars(MirrorEngine)

(***************************************************************************)
(* Claims about the copy lane (SpecLane)                                   *)
(***************************************************************************)
\* the configuration ids whose source root is key
Contenders(key) == {c \in ConfigIds : source[c] = key}

\* C1: on every lane, at most one configuration id holds the slot: no
\* acquire returns true for an id while another id's successful acquire has
\* not been followed by that id's release or abandon.
C1_MutualExclusion ==
    \A key \in SourceKeys : Cardinality(held \cap Contenders(key)) <= 1

\* C1 witness: an id holds the slot of a lane that has served before, while
\* another id of the same lane is blocked in acquire
C1_Witness ==
    \E c \in held : \E d \in Contenders(source[c]) \ {c} :
        /\ pc[d] = "waiting"
        /\ d \in Range(lanes[source[c]].waiting)
        /\ lanes[source[c]].last_served_id # None

\* C3: a waiter of a lane sees at most |contenders of the lane| grants of
\* the slot to other configuration ids before its own; an id that comes
\* back right after releasing does not overtake it again and again.
C3_BoundedBypass ==
    \A key \in DOMAIN lanes : \A c \in Range(lanes[key].waiting) :
        bypass[c] <= Cardinality(Contenders(key))

\* C3 witness: an id was granted the slot after the slot went to others
\* while it waited, among three ids sharing the lane
C3_Witness ==
    \E c \in held :
        /\ bypass[c] >= 2
        /\ Cardinality(Contenders(source[c])) >= 3

Min(S) == CHOOSE x \in S : \A y \in S : x <= y

\* the next candidate as the specification words it
CandidateOf(waiting, last_served_id) ==
    LET W == Range(waiting)
        higher == {w \in W : w > last_served_id}
    IN  IF W = {} THEN None
        ELSE IF last_served_id # None /\ higher # {} THEN Min(higher)
        ELSE Min(W)

\* acquire just returned true for c
Granted(c) == c \notin held /\ c \in held'

\* the waiting list acquire works on: c joins it on entry
WaitingWith(lane, c) ==
    IF c \in Range(lane.waiting) THEN lane.waiting
    ELSE Append(lane.waiting, c)

\* C4: the lane's next candidate is none without waiters, else the smallest
\* waiter above last_served_id if there is one, else the smallest waiter;
\* and acquire grants the slot to an id only when the slot is free or
\* already the id's own and the id is that next candidate.
C4_NextCandidate ==
    /\ [](\A key \in DOMAIN lanes :
            next_candidate(lanes[key])
              = CandidateOf(lanes[key].waiting, lanes[key].last_served_id))
    /\ [][\A c \in ConfigIds :
            Granted(c) =>
              LET lane == lane_for(lanes, source[c])
              IN  /\ lane.active_id \in {None, c}
                  /\ CandidateOf(WaitingWith(lane, c), lane.last_served_id) = c
         ]_vars

\* C4 witness: the slot is held by an id above last_served_id while a
\* smaller id waits: the round robin passed over the smallest waiter
C4_Witness ==
    \E key \in DOMAIN lanes :
        LET lane == lanes[key]
        IN  /\ lane.active_id # None
            /\ lane.active_id \in held
            /\ lane.last_served_id # None
            /\ lane.active_id > lane.last_served_id
            /\ \E w \in Range(lane.waiting) : w < lane.last_served_id

(***************************************************************************)
(* Claims about the engines and stop() (Spec)                              *)
(***************************************************************************)
\* C2: two engines whose source roots are the same canonical path are never
\* both inside copy_backup, whatever the interleaving of the engine loops
\* with stop(), also when stop() hits an engine in the middle of a copy.
C2_OneCopyPerSource ==
    \A e1 \in EngineIds : \A e2 \in EngineIds \ {e1} :
        source[e1] = source[e2] => ~(pc[e1] = "copying" /\ pc[e2] = "copying")

\* engine e makes a pass of acquire (on entry, or after a wait)
AcquirePass(e) == EntryAcquire(e) \/ AcquireWake(e)

\* C5: when an engine's cancel signal is asserted as it enters acquire or
\* is blocked in it, the pass returns false, the engine's id is off the
\* waiter list, active_id and last_served_id are as before, and the engine
\* drops the file and leaves the loop over its pending files without
\* copying.
C5_CancelledAcquire ==
    [][\A e \in EngineIds :
         (stop_event[e] /\ AcquirePass(e)) =>
            LET before == lane_for(lanes, source[e])
                after  == lanes'[source[e]]
            IN  /\ copy_slot_acquired'[e] = "false"
                /\ e \notin Range(after.waiting)
                /\ after.active_id = before.active_id
                /\ after.last_served_id = before.last_served_id
                /\ pending'[e] = pending[e] - 1
                /\ todo'[e] = 0
                /\ pc'[e] = "loop"
      ]_vars

\* C5 witness: an engine got false from acquire with its cancel signal
\* asserted, while another engine of the same source holds the slot or is
\* next in line
C5_Witness ==
    \E e \in EngineIds : \E o \in EngineIds \ {e} :
        /\ copy_slot_acquired[e] = "false"
        /\ stop_event[e]
        /\ pc[e] = "loop"
        /\ source[o] = source[e]
        /\ pc[o] \in {"copying", "acquiring"}

(***************************************************************************)
(* Claims about release and abandon (SpecLane)                             *)
(***************************************************************************)
\* C25: release(config_id) frees the slot and sets last_served_id to
\* config_id only when config_id is the current holder; when the caller is
\* not the holder, release leaves active_id, the waiter list and
\* last_served_id unchanged.
C25_ReleaseOnlyByHolder ==
    [][\A c \in ConfigIds :
         Release(c) =>
            LET before == lane_for(lanes, source[c])
                after  == lane_for(lanes', source[c])
            IN  IF before.active_id = c
                THEN /\ after.active_id = None
                     /\ after.last_served_id = c
                ELSE /\ after.active_id = before.active_id
                     /\ after.waiting = before.waiting
                     /\ after.last_served_id = before.last_served_id
      ]_vars

\* C25 witness: a worker that lost the slot to an abandon is about to call
\* release while another configuration holds the slot, a third waits and
\* last_served_id is not the caller
C25_Witness ==
    \E c \in ConfigIds :
        LET lane == lane_for(lanes, source[c])
        IN  /\ pc[c] = "holding"
            /\ lane.active_id \notin {None, c}
            /\ lane.waiting # <<>>
            /\ lane.last_served_id \notin {None, c}

\* the entries of a waiter list that are not config_id's, in order
OthersWaiting(waiting, config_id) ==
    SelectSeq(waiting, LAMBDA cid : cid # config_id)

\* C26: after abandon(config_id), config_id is neither the lane's holder
\* nor in its waiter list, whatever the lane state before; last_served_id
\* is set to config_id only if it held the slot, and the entries of other
\* configuration ids (holder and waiters) are unchanged.
C26_AbandonRemoves ==
    [][\A c \in ConfigIds :
         Abandon(c) =>
            LET before == lane_for(lanes, source[c])
                after  == lane_for(lanes', source[c])
            IN  /\ after.active_id # c
                /\ c \notin Range(after.waiting)
                /\ after.last_served_id =
                      (IF before.active_id = c THEN c
                       ELSE before.last_served_id)
                /\ before.active_id # c =>
                      after.active_id = before.active_id
                /\ OthersWaiting(after.waiting, c) =
                      OthersWaiting(before.waiting, c)
                /\ \A k \in DOMAIN lanes \ {source[c]} :
                      lanes'[k] = lanes[k]
      ]_vars

\* C26 witness: a configuration was abandoned while it waited behind
\* another one: it is off the waiter list, its worker still inside
\* acquire, the holder and a further waiter in place
C26_Witness ==
    \E c \in ConfigIds :
        LET lane == lane_for(lanes, source[c])
        IN  /\ pc[c] = "waiting"
            /\ c \notin Range(lane.waiting)
            /\ lane.active_id \notin {None, c}
            /\ lane.waiting # <<>>

(***************************************************************************)
(* Claim about the slot around the per-file copy step (Spec)               *)
(***************************************************************************)
\* the engine is inside the copy step of a file: between the acquire that
\* returned true and the end of the finally block around copy_backup
InCopyStep(e) == pc[e] \in {"copying", "finally"}

\* no engine outside its copy step holds the slot of its lane
NoSlotOutsideCopyStep ==
    \A e \in EngineIds :
        ~InCopyStep(e) => lane_for(lanes, source[e]).active_id # e

\* the step after the finally block of a copy that ended with outcome
FinallyAfter(e, outcome) ==
    /\ pc[e] = "finally"
    /\ copyResult[e] = outcome
    /\ lane_for(lanes, source[e]).active_id = e
    /\ CopyFinally(e)

\* C27: every per-file copy step that acquired the slot releases it before
\* the step ends, on every exit path (copy succeeded, copier returned an
\* error, copy was cancelled, or an exception was raised): whenever the
\* engine is not inside the copy step it does not hold its lane's slot,
\* and the finally block of a copy that still holds the slot frees it
\* whichever way the copy ended.
C27_SlotReleased ==
    /\ []NoSlotOutsideCopyStep
    /\ [][\A e \in EngineIds :
            \A outcome \in {"returned", "raised", "cancelled"} :
               FinallyAfter(e, outcome) =>
                  /\ lane_for(lanes', source[e]).active_id = None
                  /\ ~InCopyStep(e)'
         ]_vars

\* C27 witness: an engine that nobody stopped is back in its loop after a
\* copy, the slot released by it and now held by the other engine of the
\* same source
C27_Witness ==
    \E e \in EngineIds :
        LET lane == lane_for(lanes, source[e])
        IN  /\ pc[e] \in {"entry", "loop"}
            /\ copy_slot_acquired[e] = "true"
            /\ ~stop_event[e] /\ pcStop[e] = "idle"
            /\ lane.active_id \notin {None, e}
            /\ lane.last_served_id = e

(***************************************************************************)
(* Claims about the debounce (SpecSettle)                                  *)
(***************************************************************************)
\* C6: an engine starts copying a pending file only if the file's
\* (size, mtime) has been unchanged for at least settle_seconds up to the
\* moment the copy starts, whatever the copies earlier in the same tick
\* took: a file written less than settle_seconds ago is not copied.
C6_CopyOnlySettled ==
    [][\A f \in Paths :
         EntryCopy(f) => clock - src_files[f].mtime >= DEFAULT_SETTLE_SECONDS
      ]_vars

(***************************************************************************)
(* Claims about copy_backup (SpecCopy)                                     *)
(***************************************************************************)
\* copy_backup has been called and has not yet returned or raised
InCopy == copy_pc \in {"loop", "read", "written", "finish", "replace",
                        "copystat"}

C8_ResumeCorrect ==
    /\ []((copy_pc = "returned" /\ copied_path = "path") =>
             /\ files[<<destination_path, "final">>] = Src
             /\ files[<<destination_path, "part">>] = Absent)
    /\ [][\A overwrite \in BOOLEAN :
            CopyBackupCall(overwrite) =>
                LET temp == files[<<destination_path', "part">>]
                IN  /\ (temp # Absent /\ Len(temp) < source_len) =>
                           /\ start_pos' = Len(temp)
                           /\ files'[<<destination_path', "part">>] = temp
                    /\ (temp = Absent \/ Len(temp) >= source_len) =>
                           /\ start_pos' = 0
                           /\ files'[<<destination_path', "part">>] = <<>>
         ]_vars

\* a copy completed by a resumed attempt that followed a cancelled one
C8_Witness ==
    /\ copy_pc = "returned" /\ copied_path = "path"
    /\ attempts >= 2
    /\ start_pos > 0 /\ start_pos < source_len
    /\ files[<<destination_path, "final">>] = Src
    /\ files[<<destination_path, "part">>] = Absent

\* C9: with the cancel signal asserted, the copier raises Cancelled at the
\* next chunk boundary (before a read, after a write); the final target
\* name is then as it was when copy_backup was called, the .part holds
\* exactly the blocks copied so far, and the engine records no history
\* entry for the file.
C9_CancelKeepsPart ==
    /\ [](copy_pc = "cancelled" =>
            /\ files[<<destination_path, "final">>] = target_before
            /\ files[<<destination_path, "part">>] = Tagged(copied))
    /\ [][(cancel_event /\ copy_pc \in {"loop", "written"}
             /\ copy_pc' # copy_pc) =>
                /\ copy_pc' = "cancelled"
                /\ files' = files
                /\ sync_history' = sync_history
         ]_vars
    /\ [][(InCopy \/ copy_pc = "cancelled") =>
             sync_history' = sync_history]_vars

\* a copy cancelled after a write, with blocks in the .part and more to go
C9_Witness ==
    /\ copy_pc = "cancelled"
    /\ copied > start_pos /\ copied < source_len
    /\ files[<<destination_path, "part">>] = Tagged(copied)
    /\ destination_path \notin sync_history

(***************************************************************************)
(* Claims about days-mode retention (SpecRetention)                        *)
(***************************************************************************)
\* the effective timestamp of an entry: the history value if present and
\* parseable, else the newest mtime under the entry
EffectiveTimestamp(e) ==
    IF history_values[e] # NoValue /\ history_values[e] # Unparseable
    THEN history_values[e]
    ELSE Newest(entries[e].mtimes)

\* C10: after a days-mode pass with retention_value = D > 0, every entry
\* that still exists (and whose deletion did not fail) has effective
\* timestamp >= now - D days: the entries strictly older than the
\* threshold are deleted.
C10_SurvivorsWithinDays ==
    (ret_pc = "done" /\ retention_days > 0) =>
        \A e \in Entries :
            (entries[e].exists /\ e \notin delete_failed) =>
                EffectiveTimestamp(e) >=
                    UtcNow - retention_days * UnitsPerDay

(***************************************************************************)
(* Claims about count-mode retention (SpecCount)                           *)
(***************************************************************************)
\* the entries the pass found
Found == {file_entries[i].entry : i \in 1..Len(file_entries)}

\* the entries that exist
Survivors == {e \in Entries : entries[e].exists}

\* the effective timestamp an entry had when the pass began
EffectiveBefore(e) ==
    IF history_before[e] # NoValue /\ history_before[e] # Unparseable
    THEN history_before[e]
    ELSE Newest(entries[e].mtimes)

\* C11: after a count-mode pass with retention_value = N > 0 over M
\* matching entries (possibly nested), none of whose deletions failed,
\* exactly min(M, N) entries survive, and no unlinked entry has a newer
\* effective timestamp than a survivor.
C11_CountKeepsNewest ==
    (count_pc = "done" /\ retention_limit > 0 /\ delete_failed = {}) =>
        /\ Cardinality(Survivors) =
              (IF Len(file_entries) < retention_limit
               THEN Len(file_entries) ELSE retention_limit)
        /\ \A kept \in Survivors : \A gone \in Found \ Survivors :
              EffectiveBefore(kept) >= EffectiveBefore(gone)

\* C12: after a retention pass the history map contains no key whose
\* destination file was unlinked by that pass, files unlinked because an
\* enclosing matching directory was deleted recursively included.
C12_NoKeyOfRemovedEntry ==
    count_pc = "done" =>
        \A e \in Found : ~entries[e].exists => history_values[e] = NoValue

(***************************************************************************)
(* Claims about the sync-mode mirror (SpecMirror)                          *)
(***************************************************************************)
\* the target of a path is absent, with no history key and no index entry
MirrorGone(f) ==
    /\ dst_tree[f] = 0
    /\ f \notin mirror_history
    /\ mirror_backups[f] = None

Quiescent ==
    /\ mirror_pc = "sleep"
    /\ file_queue = {} /\ delete_queue = {} /\ mirror_pending = {}

\* C20: the events of one file are processed in the order they were
\* observed: when a file is deleted and re-created (or moved away and
\* back) between two ticks, the delete is applied before the create, so
\* once the engine is quiescent the destination mirrors every file that
\* exists in the source.
C20_MirrorsWhenQuiescent ==
    Quiescent =>
        \A f \in MirrorPaths : src_tree[f] # 0 => dst_tree[f] = src_tree[f]

(***************************************************************************)
(* Claims about stop() (SpecStop)                                          *)
(***************************************************************************)
\* the engine is neither the holder nor a waiter of its lane
OffLane(e) ==
    LET lane == lane_for(lanes, source[e])
    IN  lane.active_id # e /\ e \notin Range(lane.waiting)

\* C14: once stop() has been called on an engine, from the moment its
\* worker thread is created, the worker eventually leaves the event loop
\* with running = false and the engine's id off its copy lane, in every
\* interleaving of stop() with the worker.
C14_StopStops ==
    \A e \in EngineIds :
        (pcStop[e] = "done")
            ~> (pc[e] = "exited" /\ ~running[e] /\ OffLane(e))

(***************************************************************************)
(* The supervisor: _start_sync_manager and _stop_sync_manager of routes.py *)
(* called from the request threads of the web server, and the worker       *)
(* threads they create (SpecSupervisor)                                    *)
(***************************************************************************)
\* the process after boot and before resume_active_syncs: no engine, the
\* is_active flags as the previous process left them in the database
SupervisorInit ==
    /\ sync_managers = [c \in SupIds |-> None]
    /\ is_active \in [SupIds -> BOOLEAN]
    /\ source_ok \in [SupIds -> BOOLEAN]
    /\ managers = [m \in ManagerIds |-> NoManager]
    /\ req = [t \in Requests |-> NoCall]
    /\ calls = 0

InitSupervisor ==
    /\ CoordIdle /\ SettleInit /\ CopyAtRest /\ RetentionAtRest
    /\ CountAtRest /\ MirrorAtRest /\ SupervisorInit /\ StatusAtRest
    /\ DaysAtRest /\ LastAtRest

\* validate_paths: the source root exists and is a directory
validate_paths_any(ok) == TRUE

validate_paths(ok) == ok

\* FileSyncManager objects not created yet
FreeManagers == {m \in ManagerIds : managers[m].pc = "none"}

\* calls of _start_sync_manager that have yet to create their engine
StartsInFlight ==
    {t \in Requests : req[t].op = "start"
                        /\ req[t].pc \in {"check", "validate", "create"}}

\* a request thread calls _start_sync_manager(config_row, resume): from the
\* start route, or from resume_active_syncs for a row with is_active = 1
StartCall(t, c, resume) ==
    /\ req[t].pc = "idle"
    /\ calls < MaxCalls
    /\ resume => is_active[c]
    /\ Cardinality(StartsInFlight) < Cardinality(FreeManagers)
    /\ req' = [req EXCEPT ![t] =
                  [NoCall EXCEPT !.op = "start", !.pc = "check",
                                 !.config = c,
                                 !.src_missing = ~source_ok[c],
                                 !.rev = config_rev[c]]]
    /\ calls' = calls + 1
    /\ UNCHANGED <<sync_managers, is_active, source_ok, managers>>
    /\ UNCHANGED outsideSupervisor

\* the double-start check: a registered engine whose running flag is set
StartCheck(t) ==
    /\ req[t].op = "start" /\ req[t].pc = "check"
    /\ LET c == req[t].config
       IN  IF sync_managers[c] # None /\ managers[sync_managers[c]].running
           THEN req' = [req EXCEPT ![t].pc = "returned",
                                   ![t].result = "ok",
                                   ![t].already = TRUE]
           ELSE req' = [req EXCEPT ![t].pc = "validate"]
    /\ UNCHANGED <<sync_managers, is_active, source_ok, managers, calls>>
    /\ UNCHANGED outsideSupervisor

\* validate_paths up front: ValueError is returned as (False, reason)
StartValidate(t) ==
    /\ req[t].op = "start" /\ req[t].pc = "validate"
    /\ IF validate_paths(source_ok[req[t].config])
       THEN req' = [req EXCEPT ![t].pc = "create"]
       ELSE req' = [req EXCEPT ![t].pc = "returned", ![t].result = "fail"]
    /\ UNCHANGED <<sync_managers, is_active, source_ok, managers, calls>>
    /\ UNCHANGED outsideSupervisor

\* FileSyncManager(...) and threading.Thread(target=manager.run).start()
StartThread(t) ==
    /\ req[t].op = "start" /\ req[t].pc = "create"
    /\ FreeManagers # {}
    /\ LET m == CHOOSE x \in FreeManagers : \A y \in FreeManagers : x <= y
       IN  /\ managers' = [managers EXCEPT ![m] =
                              [NoManager EXCEPT !.config = req[t].config,
                                                !.pc = "created",
                                                !.rev = req[t].rev]]
           /\ req' = [req EXCEPT ![t].pc = "register", ![t].manager = m]
    /\ UNCHANGED <<sync_managers, is_active, source_ok, calls>>
    /\ UNCHANGED outsideSupervisor

\* sync_managers[config_id] = {'manager': manager, 'thread': thread}
StartRegister(t) ==
    /\ req[t].op = "start" /\ req[t].pc = "register"
    /\ sync_managers' = [sync_managers EXCEPT ![req[t].config] =
                                                  req[t].manager]
    /\ req' = [req EXCEPT ![t].pc = "activate"]
    /\ UNCHANGED <<is_active, source_ok, managers, calls>>
    /\ UNCHANGED outsideSupervisor

\* UPDATE sync_configs SET is_active = 1, commit, return (True, None)
StartActivate(t) ==
    /\ req[t].op = "start" /\ req[t].pc = "activate"
    /\ is_active' = [is_active EXCEPT ![req[t].config] = TRUE]
    /\ req' = [req EXCEPT ![t].pc = "returned", ![t].result = "ok"]
    /\ UNCHANGED <<sync_managers, source_ok, managers, calls>>
    /\ UNCHANGED outsideSupervisor

\* a request thread calls _stop_sync_manager(config_id, update_db)
StopCall(t, c, update_db) ==
    /\ req[t].pc = "idle"
    /\ calls < MaxCalls
    /\ req' = [req EXCEPT ![t] =
                  [NoCall EXCEPT !.op = "stop", !.pc = "check",
                                 !.config = c, !.update_db = update_db]]
    /\ calls' = calls + 1
    /\ UNCHANGED <<sync_managers, is_active, source_ok, managers>>
    /\ UNCHANGED outsideSupervisor

\* if config_id in sync_managers: the whole body is under this test
StopCheck(t) ==
    /\ req[t].op = "stop" /\ req[t].pc = "check"
    /\ LET c == req[t].config
       IN  IF sync_managers[c] = None
           THEN req' = [req EXCEPT ![t].pc = "returned",
                                   ![t].result = "ok"]
           ELSE req' = [req EXCEPT ![t].pc = "stop",
                                   ![t].manager = sync_managers[c]]
    /\ UNCHANGED <<sync_managers, is_active, source_ok, managers, calls>>
    /\ UNCHANGED outsideSupervisor

\* manager.stop(): the cancel signal is set and running cleared
StopManager(t) ==
    /\ req[t].op = "stop" /\ req[t].pc = "stop"
    /\ managers' = [managers EXCEPT ![req[t].manager].stop_event = TRUE,
                                    ![req[t].manager].running = FALSE,
                                    ![req[t].manager].stopped = TRUE]
    /\ req' = [req EXCEPT ![t].pc = "join"]
    /\ UNCHANGED <<sync_managers, is_active, source_ok, calls>>
    /\ UNCHANGED outsideSupervisor

\* thread.join(timeout=2.0) returns, the worker gone or not
StopJoin(t) ==
    /\ req[t].op = "stop" /\ req[t].pc = "join"
    /\ req' = [req EXCEPT ![t].pc = "del"]
    /\ UNCHANGED <<sync_managers, is_active, source_ok, managers, calls>>
    /\ UNCHANGED outsideSupervisor

\* del sync_managers[config_id]: KeyError leaves the function when another
\* thread removed the entry meanwhile
StopDel(t) ==
    /\ req[t].op = "stop" /\ req[t].pc = "del"
    /\ LET c == req[t].config
       IN  IF sync_managers[c] = None
           THEN /\ req' = [req EXCEPT ![t].pc = "returned",
                                      ![t].result = "fail"]
                /\ UNCHANGED sync_managers
           ELSE /\ sync_managers' = [sync_managers EXCEPT ![c] = None]
                /\ req' = [req EXCEPT ![t].pc =
                              IF req[t].update_db THEN "db" ELSE "returned",
                                      ![t].result =
                              IF req[t].update_db THEN "none" ELSE "ok"]
    /\ UNCHANGED <<is_active, source_ok, managers, calls>>
    /\ UNCHANGED outsideSupervisor

\* UPDATE sync_configs SET is_active = 0, commit
StopDb(t) ==
    /\ req[t].op = "stop" /\ req[t].pc = "db"
    /\ is_active' = [is_active EXCEPT ![req[t].config] = FALSE]
    /\ req' = [req EXCEPT ![t].pc = "returned", ![t].result = "ok"]
    /\ UNCHANGED <<sync_managers, source_ok, managers, calls>>
    /\ UNCHANGED outsideSupervisor

\* the route is done with the call
CallReturn(t) ==
    /\ req[t].pc = "returned"
    /\ req' = [req EXCEPT ![t] = NoCall]
    /\ UNCHANGED <<sync_managers, is_active, source_ok, managers, calls>>
    /\ UNCHANGED outsideSupervisor

\* the worker thread begins run(): _stop_event.clear(), running = True
MgrRun(m) ==
    /\ managers[m].pc = "created"
    /\ managers' = [managers EXCEPT ![m].pc = "starting",
                                    ![m].stop_event = FALSE,
                                    ![m].running = TRUE]
    /\ UNCHANGED <<sync_managers, is_active, source_ok, req, calls>>
    /\ UNCHANGED outsideSupervisor

\* validate_paths inside run(): the worker enters its loop, or gives up
\* with running = False
MgrValidate(m) ==
    /\ managers[m].pc = "starting"
    /\ IF validate_paths(source_ok[managers[m].config])
       THEN managers' = [managers EXCEPT ![m].pc = "loop"]
       ELSE managers' = [managers EXCEPT ![m].pc = "exited",
                                         ![m].running = FALSE]
    /\ UNCHANGED <<sync_managers, is_active, source_ok, req, calls>>
    /\ UNCHANGED outsideSupervisor

\* while self.running and not self._stop_event.is_set() fails: the finally
\* block clears running and the thread ends
MgrExit(m) ==
    /\ managers[m].pc = "loop"
    /\ ~managers[m].running \/ managers[m].stop_event
    /\ managers' = [managers EXCEPT ![m].pc = "exited",
                                    ![m].running = FALSE]
    /\ UNCHANGED <<sync_managers, is_active, source_ok, req, calls>>
    /\ UNCHANGED outsideSupervisor

\* the source root of a configuration is removed, or replaced by a file
SourceVanish(c) ==
    /\ source_ok[c]
    /\ source_ok' = [source_ok EXCEPT ![c] = FALSE]
    /\ UNCHANGED <<sync_managers, is_active, managers, req, calls>>
    /\ UNCHANGED outsideSupervisor

\* the source root of a configuration is created; calls under way for it
\* no longer count as calls with a missing source root
SourceAppear(c) ==
    /\ ~source_ok[c]
    /\ source_ok' = [source_ok EXCEPT ![c] = TRUE]
    /\ req' = [t \in Requests |->
                  IF req[t].config = c
                  THEN [req[t] EXCEPT !.src_missing = FALSE]
                  ELSE req[t]]
    /\ UNCHANGED <<sync_managers, is_active, managers, calls>>
    /\ UNCHANGED outsideSupervisor

SupervisorNext ==
    \/ \E t \in Requests :
          \/ \E c \in SupIds : \E resume \in BOOLEAN : StartCall(t, c, resume)
          \/ StartCheck(t)
          \/ StartValidate(t)
          \/ StartThread(t)
          \/ StartRegister(t)
          \/ StartActivate(t)
          \/ \E c \in SupIds : \E update_db \in BOOLEAN :
                StopCall(t, c, update_db)
          \/ StopCheck(t)
          \/ StopManager(t)
          \/ StopJoin(t)
          \/ StopDel(t)
          \/ StopDb(t)
          \/ CallReturn(t)
    \/ \E m \in ManagerIds : MgrRun(m) \/ MgrValidate(m) \/ MgrExit(m)
    \/ \E c \in SupIds : SourceVanish(c) \/ SourceAppear(c)

SpecSupervisor == InitSupervisor /\ [][SupervisorNext]_vars

\* worker threads of a configuration that exist, have not ended, and on
\* whose engine stop() was not called
LiveWorkers(c) ==
    {m \in ManagerIds : /\ managers[m].config = c
                        /\ managers[m].pc \in {"created", "starting", "loop"}
                        /\ ~managers[m].stopped}

\* C15: at any time at most one live engine worker exists per
\* configuration id: a start for an id whose engine has been started,
\* whether or not its worker has begun run(), creates no second engine.
C15_OneWorkerPerConfig ==
    \A c \in SupIds : Cardinality(LiveWorkers(c)) <= 1

\* C16: after stop(id) completes without the DB-preserving option, the
\* is_active flag of the configuration is false and no engine is
\* registered for id, whether or not an engine was registered when stop
\* was called; with the DB-preserving option the step that completes the
\* call leaves is_active as it is.
C16_StopClearsActive ==
    [][\A t \in Requests :
          (/\ req[t].op = "stop"
           /\ req[t].pc # "returned"
           /\ req'[t].pc = "returned"
           /\ req'[t].result = "ok")
              => LET c == req[t].config
                 IN  IF req[t].update_db
                     THEN ~is_active'[c] /\ sync_managers'[c] = None
                     ELSE is_active'[c] = is_active[c]]_vars

\* a call of _start_sync_manager has returned, and the source root of its
\* configuration was missing during the whole call
ReturnedWithMissingSource(t) ==
    req[t].op = "start" /\ req[t].pc = "returned" /\ req[t].src_missing

\* C17 as stated: every start(config) with a source root that does not
\* exist or is not a directory returns (false, reason) and creates no
\* engine or worker thread.
C17_BadSourceRejected ==
    \A t \in Requests :
        ReturnedWithMissingSource(t)
            => req[t].result = "fail" /\ req[t].manager = None

\* C17, amended: start(config) with a source root that does not exist or
\* is not a directory creates no engine and no worker thread and registers
\* nothing; it returns (false, reason), unless an engine with running =
\* true is registered for the id, when it returns (true, none) before the
\* paths are looked at.
C17_BadSourceRejectedUnlessRunning ==
    \A t \in Requests :
        ReturnedWithMissingSource(t)
            => /\ req[t].manager = None
               /\ req[t].result = (IF req[t].already THEN "ok" ELSE "fail")

C17_Witness ==
    \E t \in Requests :
        /\ ReturnedWithMissingSource(t)
        /\ ~req[t].already
        /\ req[t].result = "fail"
        /\ sync_managers[req[t].config] = None

(***************************************************************************)
(* One engine publishing its status: _update_status and _notify_status of  *)
(* FileSyncManager, called by the worker thread along run() and by the     *)
(* thread that calls stop(), with a callback that may raise (SpecStatus)   *)
(***************************************************************************)
StatusInit ==
    /\ status = InitialStatus
    /\ utcnow = 1
    /\ st_pc = [th \in StatusThreads |-> "idle"]
    /\ status_snapshot = [th \in StatusThreads |-> InitialStatus]
    /\ st_after = [th \in StatusThreads |-> <<"idle", "idle">>]
    /\ st_running = FALSE
    /\ st_stop_event = FALSE
    /\ st_slot = FALSE
    /\ st_pending \in BOOLEAN
    /\ st_copied = 0
    /\ st_copied_path = "none"
    /\ updates = [th \in StatusThreads |-> 0]
    /\ callbacks = [th \in StatusThreads |-> 0]
    /\ made = [th \in StatusThreads |-> InitialStatus]
    /\ delivered = [th \in StatusThreads |-> InitialStatus]
    /\ raised_in_copy = FALSE
    /\ failure = "none"

InitStatus ==
    /\ CoordIdle /\ SettleInit /\ CopyAtRest /\ RetentionAtRest
    /\ CountAtRest /\ MirrorAtRest /\ SupervisorAtRest /\ StatusInit
    /\ DaysAtRest /\ LastAtRest

\* what the callback does not touch
statusKept == <<utcnow, callbacks, delivered, raised_in_copy>>

\* what a step without a status update leaves alone
statusPublished == <<status, status_snapshot, made, updates, st_after>>

\* _notify_status: how the call of the callback ends for the caller; the
\* exception of a callback that raises is logged
notify_status_propagates(outcome) == outcome

notify_status(outcome) ==
    IF outcome = "raises" THEN "returns" ELSE outcome

\* _update_status(state=..., progress_percent=...) by thread th: under the
\* lock the fields are set, updated_at is stamped and the snapshot is
\* taken; the callback is called after the lock is released
update_status(th, state, progress_percent, next, raised_to) ==
    LET new == [state |-> state, progress_percent |-> progress_percent,
                updated_at |-> utcnow]
    IN  /\ status' = new
        /\ status_snapshot' = [status_snapshot EXCEPT ![th] = new]
        /\ made' = [made EXCEPT ![th] = new]
        /\ updates' = [updates EXCEPT ![th] = @ + 1]
        /\ st_pc' = [st_pc EXCEPT ![th] = "notify"]
        /\ st_after' = [st_after EXCEPT ![th] = <<next, raised_to>>]

\* the worker moves on without a status update
worker_goto(next) ==
    /\ st_pc' = [st_pc EXCEPT !["worker"] = next]
    /\ UNCHANGED statusPublished

\* the callback is called with the snapshot, and returns or raises
NotifyStatus(th) ==
    /\ st_pc[th] = "notify"
    /\ \E outcome \in {"returns", "raises"} :
          /\ raised_in_copy' =
                (raised_in_copy
                   \/ (outcome = "raises" /\ th = "worker"
                         /\ st_after[th][2] = "copy_failed"))
          /\ st_pc' = [st_pc EXCEPT ![th] =
                          IF notify_status(outcome) = "returns"
                          THEN st_after[th][1] ELSE st_after[th][2]]
    /\ callbacks' = [callbacks EXCEPT ![th] = @ + 1]
    /\ delivered' = [delivered EXCEPT ![th] = status_snapshot[th]]
    /\ UNCHANGED <<utcnow, statusPublished, st_running, st_stop_event,
                   st_slot, st_pending, st_copied, st_copied_path, failure>>
    /\ UNCHANGED outsideStatus

\* run() begins: the cancel signal is cleared, running set, SCANNING
StatusRunBegin ==
    /\ st_pc["worker"] = "idle"
    /\ st_stop_event' = FALSE
    /\ st_running' = TRUE
    /\ update_status("worker", "SCANNING", status.progress_percent,
                     "seed", "crashed")
    /\ UNCHANGED <<statusKept, st_slot, st_pending, st_copied,
                   st_copied_path, failure>>
    /\ UNCHANGED outsideStatus

\* after _seed_initial_pending: IDLE when nothing is pending
StatusSeed ==
    /\ st_pc["worker"] = "seed"
    /\ IF st_pending
       THEN worker_goto("loop")
       ELSE update_status("worker", "IDLE", status.progress_percent,
                          "loop", "crashed")
    /\ UNCHANGED <<statusKept, st_running, st_stop_event, st_slot,
                   st_pending, st_copied, st_copied_path, failure>>
    /\ UNCHANGED outsideStatus

\* the loop condition fails
StatusLoopExit ==
    /\ st_pc["worker"] = "loop"
    /\ ~st_running \/ st_stop_event
    /\ worker_goto("finally")
    /\ UNCHANGED <<statusKept, st_running, st_stop_event, st_slot,
                   st_pending, st_copied, st_copied_path, failure>>
    /\ UNCHANGED outsideStatus

\* a pass with nothing pending: IDLE unless the state is IDLE or STOPPED
StatusLoopIdle ==
    /\ st_pc["worker"] = "loop"
    /\ st_running /\ ~st_stop_event /\ ~st_pending
    /\ IF status.state \notin {"IDLE", "STOPPED"}
       THEN update_status("worker", "IDLE", st_copied, "sleep", "finally")
       ELSE worker_goto("sleep")
    /\ UNCHANGED <<statusKept, st_running, st_stop_event, st_slot,
                   st_pending, st_copied, st_copied_path, failure>>
    /\ UNCHANGED outsideStatus

\* a pass with a pending file: _process_pending_files is entered
StatusLoopPending ==
    /\ st_pc["worker"] = "loop"
    /\ st_running /\ ~st_stop_event /\ st_pending
    /\ worker_goto("entry")
    /\ UNCHANGED <<statusKept, st_running, st_stop_event, st_slot,
                   st_pending, st_copied, st_copied_path, failure>>
    /\ UNCHANGED outsideStatus

\* if not self.running: break
StatusEntryBreak ==
    /\ st_pc["worker"] = "entry"
    /\ ~st_running
    /\ worker_goto("sleep")
    /\ UNCHANGED <<statusKept, st_running, st_stop_event, st_slot,
                   st_pending, st_copied, st_copied_path, failure>>
    /\ UNCHANGED outsideStatus

\* file_path.stat() raises: the entry is dropped by except Exception
StatusEntryStatError ==
    /\ st_pc["worker"] = "entry"
    /\ st_running
    /\ failure' = "stat"
    /\ worker_goto("file_error")
    /\ UNCHANGED <<statusKept, st_running, st_stop_event, st_slot,
                   st_pending, st_copied, st_copied_path>>
    /\ UNCHANGED outsideStatus

\* _acquire_copy_slot: False once the cancel signal is set
StatusEntryAcquire ==
    /\ st_pc["worker"] = "entry"
    /\ st_running
    /\ IF st_stop_event
       THEN worker_goto("file_done") /\ UNCHANGED st_slot
       ELSE worker_goto("slot") /\ st_slot' = TRUE
    /\ UNCHANGED <<statusKept, st_running, st_stop_event, st_pending,
                   st_copied, st_copied_path, failure>>
    /\ UNCHANGED outsideStatus

\* COPYING "Starting copy", with the slot held and before the try block
\* whose finally releases it
StatusSlotUpdate ==
    /\ st_pc["worker"] = "slot"
    /\ update_status("worker", "COPYING", st_copied, "copy_start",
                     "file_error")
    /\ UNCHANGED <<statusKept, st_running, st_stop_event, st_slot,
                   st_pending, st_copied, st_copied_path, failure>>
    /\ UNCHANGED outsideStatus

\* copy_file_with_progress: progress_callback(name, copied, total) first
StatusCopyStart ==
    /\ st_pc["worker"] = "copy_start"
    /\ st_copied' = 0
    /\ update_status("worker", "COPYING", 0, "chunk", "copy_failed")
    /\ UNCHANGED <<statusKept, st_running, st_stop_event, st_slot,
                   st_pending, st_copied_path, failure>>
    /\ UNCHANGED outsideStatus

\* a chunk is read and written, progress_callback after it
StatusChunk ==
    /\ st_pc["worker"] = "chunk"
    /\ ~st_stop_event
    /\ st_copied < StatusChunks
    /\ st_copied' = st_copied + 1
    /\ update_status("worker", "COPYING", st_copied + 1, "chunk",
                     "copy_failed")
    /\ UNCHANGED <<statusKept, st_running, st_stop_event, st_slot,
                   st_pending, st_copied_path, failure>>
    /\ UNCHANGED outsideStatus

\* should_cancel(): CopyCancelled leaves copy_backup, the finally block
\* releases the slot, the engine breaks out of the pass
StatusChunkCancel ==
    /\ st_pc["worker"] = "chunk"
    /\ st_stop_event
    /\ st_copied_path' = "cancelled"
    /\ st_slot' = FALSE
    /\ worker_goto("file_done")
    /\ UNCHANGED <<statusKept, st_running, st_stop_event, st_pending,
                   st_copied, failure>>
    /\ UNCHANGED outsideStatus

\* a read or a write fails
StatusCopyError ==
    /\ st_pc["worker"] = "chunk"
    /\ ~st_stop_event
    /\ failure' = "io"
    /\ worker_goto("copy_failed")
    /\ UNCHANGED <<statusKept, st_running, st_stop_event, st_slot,
                   st_pending, st_copied, st_copied_path>>
    /\ UNCHANGED outsideStatus

\* end of the source: the last progress_callback(name, total, total)
StatusCopyFinal ==
    /\ st_pc["worker"] = "chunk"
    /\ ~st_stop_event
    /\ st_copied = StatusChunks
    /\ update_status("worker", "COPYING", st_copied, "replace",
                     "copy_failed")
    /\ UNCHANGED <<statusKept, st_running, st_stop_event, st_slot,
                   st_pending, st_copied, st_copied_path, failure>>
    /\ UNCHANGED outsideStatus

\* copy_backup's except Exception: it returns None; the slot is released
StatusCopyFailed ==
    /\ st_pc["worker"] = "copy_failed"
    /\ st_copied_path' = "none"
    /\ st_slot' = FALSE
    /\ worker_goto("file_done")
    /\ UNCHANGED <<statusKept, st_running, st_stop_event, st_pending,
                   st_copied, failure>>
    /\ UNCHANGED outsideStatus

\* os.replace and copystat: copy_backup returns the path; the slot is
\* released
StatusReplace ==
    /\ st_pc["worker"] = "replace"
    /\ st_copied_path' = "path"
    /\ st_slot' = FALSE
    /\ worker_goto("synced")
    /\ UNCHANGED <<statusKept, st_running, st_stop_event, st_pending,
                   st_copied, failure>>
    /\ UNCHANGED outsideStatus

\* COPYING "Synced: name"
StatusSynced ==
    /\ st_pc["worker"] = "synced"
    /\ update_status("worker", "COPYING", st_copied, "file_done",
                     "file_error")
    /\ UNCHANGED <<statusKept, st_running, st_stop_event, st_slot,
                   st_pending, st_copied, st_copied_path, failure>>
    /\ UNCHANGED outsideStatus

\* except Exception around the entry: it is dropped, nothing is released
StatusFileError ==
    /\ st_pc["worker"] = "file_error"
    /\ worker_goto("file_done")
    /\ UNCHANGED <<statusKept, st_running, st_stop_event, st_slot,
                   st_pending, st_copied, st_copied_path, failure>>
    /\ UNCHANGED outsideStatus

\* the processed entry leaves pending_files; IDLE if still running
StatusFileDone ==
    /\ st_pc["worker"] = "file_done"
    /\ st_pending' = FALSE
    /\ IF st_running
       THEN update_status("worker", "IDLE", st_copied, "sleep", "finally")
       ELSE worker_goto("sleep")
    /\ UNCHANGED <<statusKept, st_running, st_stop_event, st_slot,
                   st_copied, st_copied_path, failure>>
    /\ UNCHANGED outsideStatus

\* time.sleep(1)
StatusSleep ==
    /\ st_pc["worker"] = "sleep"
    /\ worker_goto("loop")
    /\ UNCHANGED <<statusKept, st_running, st_stop_event, st_slot,
                   st_pending, st_copied, st_copied_path, failure>>
    /\ UNCHANGED outsideStatus

\* the finally block of run(): running cleared, slot abandoned, STOPPED
StatusRunFinally ==
    /\ st_pc["worker"] = "finally"
    /\ st_running' = FALSE
    /\ st_slot' = FALSE
    /\ update_status("worker", "STOPPED", status.progress_percent,
                     "exited", "exited")
    /\ UNCHANGED <<statusKept, st_stop_event, st_pending, st_copied,
                   st_copied_path, failure>>
    /\ UNCHANGED outsideStatus

\* stop(): cancel signal, running cleared, slot abandoned, STOPPED
StatusStop ==
    /\ st_pc["stopper"] = "idle"
    /\ st_stop_event' = TRUE
    /\ st_running' = FALSE
    /\ st_slot' = FALSE
    /\ update_status("stopper", "STOPPED", 0, "done", "done")
    /\ UNCHANGED <<statusKept, st_pending, st_copied, st_copied_path,
                   failure>>
    /\ UNCHANGED outsideStatus

\* time passes
StatusTick ==
    /\ utcnow < MaxNow
    /\ utcnow' = utcnow + 1
    /\ UNCHANGED <<status, st_pc, status_snapshot, st_after, st_running,
                   st_stop_event, st_slot, st_pending, st_copied,
                   st_copied_path, updates, callbacks, made, delivered,
                   raised_in_copy, failure>>
    /\ UNCHANGED outsideStatus

StatusNext ==
    \/ \E th \in StatusThreads : NotifyStatus(th)
    \/ StatusRunBegin
    \/ StatusSeed
    \/ StatusLoopExit
    \/ StatusLoopIdle
    \/ StatusLoopPending
    \/ StatusEntryBreak
    \/ StatusEntryStatError
    \/ StatusEntryAcquire
    \/ StatusSlotUpdate
    \/ StatusCopyStart
    \/ StatusChunk
    \/ StatusChunkCancel
    \/ StatusCopyError
    \/ StatusCopyFinal
    \/ StatusCopyFailed
    \/ StatusReplace
    \/ StatusSynced
    \/ StatusFileError
    \/ StatusFileDone
    \/ StatusSleep
    \/ StatusRunFinally
    \/ StatusStop
    \/ StatusTick

SpecStatus == InitStatus /\ [][StatusNext]_vars

\* every execution of _update_status by a thread is followed by one call
\* of the callback with the status as that update left it
CallbackOncePerUpdate ==
    \A th \in StatusThreads :
        /\ updates[th] = callbacks[th] + (IF st_pc[th] = "notify" THEN 1 ELSE 0)
        /\ (updates[th] > 0 /\ st_pc[th] # "notify") => delivered[th] = made[th]
        /\ updates[th] > 0 => made[th].updated_at # None

\* nothing but stop() ends the worker, nothing but a failed read, write or
\* stat ends a copy or drops an entry, and the slot is not held outside
\* the copy
CallbackHarmless ==
    /\ st_pc["worker"] # "crashed"
    /\ st_pc["worker"] \in {"finally", "exited"} => st_pc["stopper"] # "idle"
    /\ st_pc["worker"] = "copy_failed" => failure = "io"
    /\ st_pc["worker"] = "file_error" => failure = "stat"
    /\ st_pc["worker"] \in {"seed", "loop", "entry", "file_done", "sleep",
                            "exited"} => ~st_slot

\* C19: every status update of an engine sets updated_at and invokes the
\* callback exactly once with a snapshot of the status as of that update;
\* an exception raised by the callback never changes the engine's state,
\* interrupts a copy, or keeps the copy slot from being released.
C19_CallbackOnceAndHarmless == CallbackOncePerUpdate /\ CallbackHarmless

\* the callback raised during the copy of a file, the copy went on to its
\* end, the slot is free again and the engine idle, every update delivered
C19_Witness ==
    /\ raised_in_copy
    /\ st_copied_path = "path"
    /\ st_pc["worker"] = "sleep"
    /\ status.state = "IDLE"
    /\ ~st_slot
    /\ callbacks["worker"] = updates["worker"]
    /\ callbacks["worker"] >= 4

(***************************************************************************)
(* A days-mode engine started on an empty destination: every matching      *)
(* source file is seeded, copied and recorded, and the retention pass runs *)
(* after each copy (SpecDays)                                              *)
(***************************************************************************)
DaysInit ==
    /\ tz_offset \in (0 - MaxTz)..MaxTz
    /\ retention_days \in 1..MaxDays
    /\ entries = [e \in Entries |-> [exists |-> FALSE, mtimes |-> {0}]]
    /\ history_values = [e \in Entries |-> NoValue]
    /\ ret_pc = "idle"
    /\ ret_idx = 1
    /\ threshold = 0
    /\ history_keys_to_remove = {}
    /\ delete_failed = {}
    /\ src_mtime \in [Entries -> Times]
    /\ days_pending = {}
    /\ days_pc = "start"

InitDays ==
    /\ CoordIdle /\ SettleInit /\ CopyAtRest /\ DaysInit
    /\ CountAtRest /\ MirrorAtRest /\ SupervisorAtRest /\ StatusAtRest
    /\ LastAtRest

\* the entries _enforce_days_retention deletes: those whose timestamp is
\* before utcnow() - retention_days days
expired(dest, history) ==
    IF retention_days <= 0 THEN {}
    ELSE {e \in Entries :
            /\ dest[e].exists
            /\ resolve_entry_timestamp(dest[e], history[e])
                  < UtcNow - retention_days * UnitsPerDay}

\* run() up to the loop: the destination is empty, so the first retention
\* pass finds nothing; _seed_initial_pending registers every matching
\* source file (the count-mode limit does not apply)
DaysStart ==
    /\ days_pc = "start"
    /\ days_pending' = Entries
    /\ days_pc' = "loop"
    /\ UNCHANGED <<tz_offset, retention_days, entries, history_values,
                   src_mtime>>
    /\ UNCHANGED outsideDays

\* a settled pending file: copy_backup (copystat gives the target the
\* mtime of the source), _record_sync stores utcnow() under the key, then
\* enforce_retention runs over the destination
DaysCopy(f) ==
    /\ days_pc = "loop"
    /\ f \in days_pending
    /\ LET copied_to == [entries EXCEPT ![f] =
                            [exists |-> TRUE, mtimes |-> {src_mtime[f]}]]
           recorded == [history_values EXCEPT ![f] = UtcNow]
           gone == expired(copied_to, recorded)
       IN  /\ entries' = [e \in Entries |->
                             IF e \in gone
                             THEN [copied_to[e] EXCEPT !.exists = FALSE]
                             ELSE copied_to[e]]
           /\ history_values' = [e \in Entries |->
                                    IF e \in gone THEN NoValue
                                    ELSE recorded[e]]
    /\ days_pending' = days_pending \ {f}
    /\ UNCHANGED <<tz_offset, retention_days, src_mtime, days_pc>>
    /\ UNCHANGED outsideDays

\* nothing is pending any more: the engine goes IDLE
DaysDrained ==
    /\ days_pc = "loop"
    /\ days_pending = {}
    /\ days_pc' = "drained"
    /\ UNCHANGED <<tz_offset, retention_days, entries, history_values,
                   src_mtime, days_pending>>
    /\ UNCHANGED outsideDays

DaysNext ==
    \/ DaysStart
    \/ \E f \in Entries : DaysCopy(f)
    \/ DaysDrained

SpecDays == InitDays /\ [][DaysNext]_vars

\* the mtime of source file f is more than retention_days days old
OlderThanRetention(f) ==
    src_mtime[f] < UtcNow - retention_days * UnitsPerDay

\* C18: in days mode with retention_value = D, after an engine started on
\* an empty destination has drained its queue, a matching source file
\* whose mtime is older than D days has no mirror at the destination and
\* no history key, and a newer one is present with its history key.
C18_OldFilesNotMirrored ==
    days_pc = "drained" =>
        \A f \in Entries :
            IF OlderThanRetention(f)
            THEN ~entries[f].exists /\ history_values[f] = NoValue
            ELSE entries[f].exists /\ history_values[f] # NoValue

(***************************************************************************)
(* One command-line invocation: main() builds the engine, run() validates  *)
(* the paths and loops until it is interrupted; every change of the        *)
(* history map is saved to sync_history.json (SpecCli)                     *)
(***************************************************************************)
\* the sub-models up to SpecDays, at rest
EarlierAtRest ==
    /\ CoordIdle /\ SettleInit /\ CopyAtRest /\ RetentionAtRest
    /\ CountAtRest /\ MirrorAtRest /\ SupervisorAtRest /\ StatusAtRest
    /\ DaysAtRest

\* the process is started; the history file is what earlier runs left
CliInit ==
    /\ cli_pc = "main"
    /\ cli_source_ok \in BOOLEAN
    /\ exit_status = NoValue
    /\ cli_history = {}
    /\ \E ks \in SUBSET HistKeys :
          /\ history_file = CompleteFile(ks)
          /\ file_before = CompleteFile(ks)

InitCli ==
    /\ EarlierAtRest /\ CliInit /\ EditAtRest /\ EnforceAtRest
    /\ QueueAtRest /\ TailAtRest

\* load_sync_history: the map of the file; {} when json.load fails
load_sync_history(file) == IF file.complete THEN file.keys ELSE {}

\* main() up to manager.run(): FileSyncManager(config) loads the history
CliMain ==
    /\ cli_pc = "main"
    /\ cli_history' = load_sync_history(history_file)
    /\ cli_pc' = "run"
    /\ UNCHANGED <<cli_source_ok, exit_status, history_file, file_before>>
    /\ UNCHANGED outsideCli

\* run() up to the loop: validate_paths raises ValueError, which run()
\* itself catches, logs and answers with a plain return
CliValidate ==
    /\ cli_pc = "run"
    /\ cli_pc' = IF cli_source_ok THEN "loop" ELSE "returned"
    /\ UNCHANGED <<cli_source_ok, exit_status, cli_history, history_file,
                   file_before>>
    /\ UNCHANGED outsideCli

\* _record_sync after a copy: the key is set, _persist_history is called
CliRecordSync(k) ==
    /\ cli_pc = "loop"
    /\ cli_history' = cli_history \cup {k}
    /\ file_before' = history_file
    /\ cli_pc' = "save"
    /\ UNCHANGED <<cli_source_ok, exit_status, history_file>>
    /\ UNCHANGED outsideCli

\* retention or deletion mirroring popped a key: _persist_history
CliPopKey(k) ==
    /\ cli_pc = "loop"
    /\ k \in cli_history
    /\ cli_history' = cli_history \ {k}
    /\ file_before' = history_file
    /\ cli_pc' = "save"
    /\ UNCHANGED <<cli_source_ok, exit_status, history_file>>
    /\ UNCHANGED outsideCli

\* save_sync_history: history_path.open("w") truncates the file itself
SaveOpen ==
    /\ cli_pc = "save"
    /\ history_file' = [keys |-> {}, complete |-> FALSE]
    /\ cli_pc' = "write"
    /\ UNCHANGED <<cli_source_ok, exit_status, cli_history, file_before>>
    /\ UNCHANGED outsideCli

\* json.dump writes the text piece by piece, a key at a time here; the
\* text is complete with the last piece
SaveWrite ==
    /\ cli_pc = "write"
    /\ LET left == cli_history \ history_file.keys
       IN  IF left = {}
           THEN /\ history_file' = [history_file EXCEPT !.complete = TRUE]
                /\ cli_pc' = "loop"
           ELSE /\ history_file' =
                     [history_file EXCEPT !.keys =
                         @ \cup {CHOOSE k \in left : \A j \in left : k <= j}]
                /\ cli_pc' = "write"
    /\ UNCHANGED <<cli_source_ok, exit_status, cli_history, file_before>>
    /\ UNCHANGED outsideCli

\* KeyboardInterrupt inside the loop: caught, the finally block runs and
\* run() returns
CliInterrupt ==
    /\ cli_pc = "loop"
    /\ cli_pc' = "returned"
    /\ UNCHANGED <<cli_source_ok, exit_status, cli_history, history_file,
                   file_before>>
    /\ UNCHANGED outsideCli

\* how manager.run() ends for main(): it returns; the ValueError of
\* validate_paths does not leave run()
run_raises(ok) == FALSE

\* main() after manager.run(): sys.exit(1) on ValueError, else the end of
\* the program
CliExit ==
    /\ cli_pc = "returned"
    /\ exit_status' = IF run_raises(cli_source_ok) THEN 1 ELSE 0
    /\ cli_pc' = "exited"
    /\ UNCHANGED <<cli_source_ok, cli_history, history_file, file_before>>
    /\ UNCHANGED outsideCli

\* the process is killed, or the machine goes down
CliKill ==
    /\ cli_pc \notin {"exited", "killed"}
    /\ cli_pc' = "killed"
    /\ UNCHANGED <<cli_source_ok, exit_status, cli_history, history_file,
                   file_before>>
    /\ UNCHANGED outsideCli

CliNext ==
    \/ CliMain
    \/ CliValidate
    \/ \E k \in HistKeys : CliRecordSync(k) \/ CliPopKey(k)
    \/ SaveOpen
    \/ SaveWrite
    \/ CliInterrupt
    \/ CliExit
    \/ CliKill

SpecCli == InitCli /\ [][CliNext]_vars

\* C21: at every instant, a crash or a load in the middle of a save
\* included, the history file holds the complete previous map or the
\* complete new map, never a partial one.
C21_HistoryFileWhole ==
    /\ history_file.complete
    /\ cli_pc \in {"save", "write"} =>
          history_file \in {file_before, CompleteFile(cli_history)}

\* C22: a one-shot invocation whose source path does not exist or is not a
\* directory ends with exit status 1; one that stops cleanly ends with
\* exit status 0.
C22_ExitStatus ==
    cli_pc = "exited" => exit_status = (IF cli_source_ok THEN 0 ELSE 1)

(***************************************************************************)
(* The edit route: update_sync_config saves the row and restarts the       *)
(* engine of the configuration if it was running, next to the start route  *)
(* (SpecEdit)                                                              *)
(***************************************************************************)
InitEdit ==
    /\ CoordIdle /\ SettleInit /\ CopyAtRest /\ RetentionAtRest
    /\ CountAtRest /\ MirrorAtRest /\ SupervisorInit /\ StatusAtRest
    /\ DaysAtRest /\ CliAtRest /\ EditAtRest /\ EnforceAtRest
    /\ QueueAtRest /\ TailAtRest

\* edits of configuration c that have not written their row yet
EditsInFlight(c) ==
    {t \in Requests : req[t].op = "edit" /\ req[t].pc = "update"
                        /\ req[t].config = c}

\* update_sync_config with an id: was_running is the running flag of the
\* engine registered for the id, False when none is registered
EditCheck(t, c) ==
    /\ req[t].pc = "idle"
    /\ calls < MaxCalls
    /\ config_rev[c] + Cardinality(EditsInFlight(c)) < MaxEdits
    /\ req' = [req EXCEPT ![t] =
                  [NoCall EXCEPT
                      !.op = "edit", !.pc = "update", !.config = c,
                      !.was_running =
                          /\ sync_managers[c] # None
                          /\ managers[sync_managers[c]].running]]
    /\ calls' = calls + 1
    /\ UNCHANGED <<sync_managers, is_active, source_ok, managers>>
    /\ UNCHANGED <<config_rev>>
    /\ UNCHANGED outsideEdit

\* UPDATE sync_configs ..., commit, and the row read back; then, if
\* was_running, the call of _stop_sync_manager(new_id) begins
EditUpdate(t) ==
    /\ req[t].op = "edit" /\ req[t].pc = "update"
    /\ LET c == req[t].config
       IN  /\ config_rev' = [config_rev EXCEPT ![c] = @ + 1]
           /\ req' = [req EXCEPT ![t] =
                         IF req[t].was_running
                         THEN [@ EXCEPT !.op = "stop", !.pc = "check",
                                        !.update_db = TRUE, !.edit = TRUE,
                                        !.rev = config_rev[c] + 1]
                         ELSE [@ EXCEPT !.pc = "returned", !.result = "ok",
                                        !.edit = TRUE,
                                        !.rev = config_rev[c] + 1]]
    /\ UNCHANGED <<sync_managers, is_active, source_ok, managers, calls>>
    /\ UNCHANGED outsideEdit

\* _stop_sync_manager has returned to update_sync_config
StopReturnedToEdit(t) ==
    /\ req[t].edit /\ req[t].op = "stop"
    /\ req[t].pc = "returned" /\ req[t].result = "ok"

\* restarted, error_message = _start_sync_manager(config_row), with the row
\* read back after the update
EditRestart(t) ==
    /\ StopReturnedToEdit(t)
    /\ req' = [req EXCEPT ![t].op = "start", ![t].pc = "check",
                          ![t].result = "none", ![t].manager = None,
                          ![t].src_missing = ~source_ok[req[t].config]]
    /\ UNCHANGED <<sync_managers, is_active, source_ok, managers, calls>>
    /\ UNCHANGED <<config_rev>>
    /\ UNCHANGED outsideEdit

\* a route is done with its request: the start route, or the edit route
\* after the save or the restart (or after _stop_sync_manager raised)
RouteReturn(t) ==
    /\ ~StopReturnedToEdit(t)
    /\ CallReturn(t)

EditNext ==
    \/ \E t \in Requests :
          \/ \E c \in SupIds : StartCall(t, c, FALSE)
          \/ \E c \in SupIds : EditCheck(t, c)
          \/ EditUpdate(t)
          \/ EditRestart(t)
          \/ StartCheck(t)
          \/ StartValidate(t)
          \/ StartThread(t)
          \/ StartRegister(t)
          \/ StartActivate(t)
          \/ StopCheck(t)
          \/ StopManager(t)
          \/ StopJoin(t)
          \/ StopDel(t)
          \/ StopDb(t)
          \/ RouteReturn(t)
    \/ \E m \in ManagerIds : MgrRun(m) \/ MgrValidate(m) \/ MgrExit(m)

SpecEdit == InitEdit /\ [][EditNext]_vars

\* the engines of one configuration id that run, run with one configuration
OneConfigPerId ==
    \A c \in SupIds :
        \A m1 \in LiveWorkers(c) : \A m2 \in LiveWorkers(c) :
            managers[m1].rev = managers[m2].rev

\* the edit route's call of _start_sync_manager returns success
RestartSucceeds(t) ==
    /\ req[t].edit /\ req[t].op = "start"
    /\ req[t].pc # "returned"
    /\ req'[t].pc = "returned" /\ req'[t].result = "ok"

\* the edit route returns after the save, the engine not running
SavedNotRunning(t) ==
    /\ req[t].op = "edit" /\ req[t].pc = "update"
    /\ req'[t].pc = "returned" /\ ~req'[t].was_running

\* a restart that succeeded left an engine of the saved configuration (or
\* of a later one) registered and the row active
RestartedWithNew ==
    [][\A t \in Requests :
          RestartSucceeds(t) =>
             LET c == req[t].config
             IN  /\ sync_managers'[c] # None
                 /\ managers'[sync_managers'[c]].rev >= req[t].rev
                 /\ managers'[sync_managers'[c]].pc # "none"
                 /\ is_active'[c]
      ]_vars

\* an edit of a configuration whose engine was not running creates none
NoStartWhenIdle ==
    [][\A t \in Requests :
          SavedNotRunning(t) =>
             /\ managers' = managers
             /\ sync_managers' = sync_managers
      ]_vars

\* C23: when an edit of a configuration is saved: if its engine was
\* running, the old engine is stopped and a new engine built from the new
\* configuration is started (and is_active ends true when the restart
\* succeeds); if its engine was not running, no engine is started; at no
\* point after the save do two engines for that id run with different
\* configurations.
C23_EditRestarts ==
    /\ RestartedWithNew
    /\ NoStartWhenIdle
    /\ []OneConfigPerId

(***************************************************************************)
(* One call of enforce_retention, in any mode and with any retention       *)
(* value, over a destination nobody else touches (SpecEnforce)             *)
(***************************************************************************)
\* a destination of files that are new or old, with or without a history
\* value, and the arguments of the call
EnforceInit ==
    /\ retention_mode \in {"days", "count", "sync"}
    /\ retention \in (0 - 1)..MaxLimit
    /\ enforce_pc = "idle"
    /\ history_changed = FALSE
    /\ retention_days = retention
    /\ retention_limit = retention
    /\ tz_offset = 0
    /\ inside = FALSE
    /\ \E own \in [Entries -> {0, MaxTime}] :
       \E there \in [Entries -> BOOLEAN] :
          entries = [e \in Entries |->
                        IF there[e]
                        THEN [exists |-> TRUE, mtimes |-> {own[e]}]
                        ELSE NoEntry]
    /\ history_values \in [Entries -> {NoValue, 0, MaxTime}]
    /\ \A e \in Entries : ~entries[e].exists => history_values[e] = NoValue
    /\ history_before = history_values
    /\ delete_failed = {}
    /\ file_entries = <<>>
    /\ targets = <<>>
    /\ count_pc = "idle"
    /\ ret_pc = "idle"
    /\ ret_idx = 1
    /\ threshold = 0
    /\ history_keys_to_remove = {}

InitEnforce ==
    /\ CoordIdle /\ SettleInit /\ CopyAtRest /\ EnforceInit /\ MirrorAtRest
    /\ SupervisorAtRest /\ StatusAtRest /\ DaysAtRest
    /\ CliAtRest /\ EditAtRest /\ QueueAtRest /\ TailAtRest

\* a dispatch that runs the days pass in sync mode too
enforce_target_no_sync(mode) == IF mode = "count" THEN "count" ELSE "days"

\* enforce_retention: which pass a mode runs
enforce_target(mode) ==
    IF mode = "sync" THEN "none"
    ELSE IF mode = "count" THEN "count"
    ELSE "days"

\* enforce_retention is called: sync mode returns False at once
EnforceCall ==
    /\ enforce_pc = "idle"
    /\ LET target == enforce_target(retention_mode)
       IN  IF target = "none"
           THEN /\ enforce_pc' = "returned"
                /\ history_changed' = FALSE
           ELSE /\ enforce_pc' = target
                /\ UNCHANGED history_changed
    /\ UNCHANGED <<retention_mode, retention, retVars, countVars>>
    /\ UNCHANGED outsideEnforce

\* a step of _enforce_days_retention
EnforceDays == enforce_pc = "days" /\ RetentionNext

\* a step of _enforce_count_retention
EnforceCount == enforce_pc = "count" /\ CountNext

\* the pass returns history_changed: a key was popped that was in the map
EnforceReturn ==
    /\ \/ enforce_pc = "days" /\ ret_pc = "done"
       \/ enforce_pc = "count" /\ count_pc = "done"
    /\ history_changed' = (history_values # history_before)
    /\ enforce_pc' = "returned"
    /\ UNCHANGED <<retention_mode, retention, retVars, countVars>>
    /\ UNCHANGED outsideEnforce

EnforceNext ==
    \/ EnforceCall
    \/ EnforceDays
    \/ EnforceCount
    \/ EnforceReturn

SpecEnforce == InitEnforce /\ [][EnforceNext]_vars

\* the call is one the policy is disabled for
PolicyDisabled == retention_mode = "sync" \/ retention <= 0

\* C29: enforce_retention in sync mode, or in days/count mode with
\* retention_value <= 0, deletes no destination entry, leaves the history
\* map unchanged and reports no history change.
C29_DisabledPolicyNoOp ==
    /\ [][PolicyDisabled =>
             /\ entries' = entries
             /\ history_values' = history_values]_vars
    /\ [](PolicyDisabled /\ enforce_pc = "returned" => ~history_changed)

\* C29 witness: a call with a disabled policy has returned over a
\* destination that holds two old files with history values, more than
\* any limit above zero would keep for long
C29_Witness ==
    /\ PolicyDisabled /\ enforce_pc = "returned"
    /\ \A e \in Entries :
          /\ entries[e].exists
          /\ entries[e].mtimes = {0}
          /\ history_values[e] = 0

(***************************************************************************)
(* One engine tick by tick: the observer's events (some missed, some       *)
(* doubled), the periodic rescan, the pending queue with its byte counts,  *)
(* the copies with the retention pass that follows each, and the status    *)
(* the engine publishes (SpecQueue).  A tick is one pass of the loop of    *)
(* run(); it runs on the worker thread alone.  A copy succeeds; in days    *)
(* mode no backup reaches its age limit within a run; the run is followed  *)
(* until the engine is stopped.                                            *)
(***************************************************************************)
PathSeq == [i \in 1..NumPaths |-> i]

\* the orders in which _pending_items_snapshot may list the queue: the
\* order of registration, or newest mtime first in count mode
SnapshotOrders == {PathSeq, [i \in 1..NumPaths |-> NumPaths + 1 - i]}

\* the keys of a destination in the order of a history, oldest first
InOrder(order, dst) == SelectSeq(order, LAMBDA k : dst[k] # NoValue)

\* an engine that has mirrored its source and watches it: the destination
\* and the index agree with the source, every backup has a history key, a
\* count limit is met
QueueInit ==
    /\ q_config \in [retention_mode : {"days", "count", "sync"},
                     retention : {0, 1},
                     rescan_ticks : {0, RescanTicks}]
    /\ q_src \in [MirrorPaths -> {NoValue} \cup 1..MaxFileSize]
    /\ (q_config.retention_mode = "count" /\ q_config.retention > 0)
          => Cardinality({p \in MirrorPaths : q_src[p] # NoValue})
                <= q_config.retention
    /\ q_dst = q_src
    /\ \E order \in SnapshotOrders :
          mgr = [NewManager EXCEPT !.existing_backups = q_src,
                                   !.sync_history = InOrder(order, q_src)]
    /\ q_seen = NothingSeen

InitQueue ==
    /\ EarlierAtRest /\ CliAtRest /\ EditAtRest /\ EnforceAtRest
    /\ QueueInit /\ TailAtRest

IsPending(m, p) == m.pending_files[p].last_size # NoValue

HasPending(m) == \E p \in MirrorPaths : IsPending(m, p)

\* FileSyncManager._calculate_overall_percent, nothing being copied
calculate_overall_percent(m) ==
    IF m.queue_total_bytes <= 0 THEN 0
    ELSE LET percent == (m.queue_completed_bytes * 100)
                            \div m.queue_total_bytes
         IN  IF percent > 100 THEN 100 ELSE percent

\* FileSyncManager._add_queue_bytes
add_queue_bytes(m, size) ==
    IF size <= 0 THEN m
    ELSE [m EXCEPT !.queue_total_bytes = @ + size]

\* FileSyncManager._remove_queue_bytes
remove_queue_bytes(m, size) ==
    IF size <= 0 THEN m
    ELSE LET total == IF m.queue_total_bytes - size < 0 THEN 0
                      ELSE m.queue_total_bytes - size
         IN  [m EXCEPT !.queue_total_bytes = total,
                       !.queue_completed_bytes =
                           IF @ > total THEN total ELSE @]

\* a registration into the empty queue that keeps the counts of the batch
\* before
reset_queue_progress_kept(m) == m

\* FileSyncManager._reset_queue_progress
reset_queue_progress(m) ==
    [m EXCEPT !.queue_total_bytes = 0,
              !.queue_completed_bytes = 0,
              !.batch_copied = FALSE,
              !.status.progress_percent = 0]

\* FileSyncManager._mark_queue_active
mark_queue_active(m) ==
    IF m.status.state \in {"IDLE", "STOPPED"}
    THEN [m EXCEPT !.status.state = "SCANNING",
                   !.status.details = "pending",
                   !.status.progress_percent = calculate_overall_percent(m)]
    ELSE m

\* FileSyncManager._register_pending_file
q_register_pending_file(m, src, p) ==
    IF src[p] = NoValue THEN m
    ELSE IF m.existing_backups[p] = src[p] THEN m
    ELSE IF IsPending(m, p) THEN m
    ELSE LET reset == IF HasPending(m) THEN m ELSE reset_queue_progress(m)
             added == [reset EXCEPT !.pending_files[p] =
                                       [last_size |-> src[p], age |-> 0]]
         IN  mark_queue_active(add_queue_bytes(added, src[p]))

RECURSIVE register_each(_, _, _)
\* _register_pending_file for each path of a sequence, in order
register_each(m, src, paths) ==
    IF paths = <<>> THEN m
    ELSE register_each(q_register_pending_file(m, src, Head(paths)),
                       src, Tail(paths))

\* FileSyncManager._drain_event_queue
drain_event_queue(m, src) ==
    [register_each(m, src, m.event_queue) EXCEPT !.event_queue = <<>>]

\* an engine that mirrors deletions in every mode
mirrors_deletions_always(mode) == TRUE

\* the test of queue_delete_event and _process_delete_events
mirrors_deletions(mode) == mode = "sync"

\* FileSyncManager.queue_file_event
queue_file_event(m, p) ==
    IF ~m.running THEN m
    ELSE [m EXCEPT !.event_queue = Append(@, p)]

\* FileSyncManager.queue_delete_event
queue_delete_event(m, mode, p) ==
    IF ~m.running \/ ~mirrors_deletions(mode) THEN m
    ELSE [m EXCEPT !.delete_queue = Append(@, p)]

\* FileSyncManager._handle_source_deletion on the engine and destination w
q_handle_source_deletion(w, p) ==
    [m |-> [w.m EXCEPT !.existing_backups[p] = NoValue,
                       !.sync_history = SelectSeq(@, LAMBDA k : k # p)],
     dst |-> [w.dst EXCEPT ![p] = NoValue]]

RECURSIVE handle_deletions(_, _)
handle_deletions(w, paths) ==
    IF paths = <<>> THEN w
    ELSE handle_deletions(q_handle_source_deletion(w, Head(paths)),
                          Tail(paths))

\* FileSyncManager._process_delete_events
process_delete_events(w, mode) ==
    IF ~mirrors_deletions(mode)
    THEN [w EXCEPT !.m.delete_queue = <<>>]
    ELSE [handle_deletions(w, w.m.delete_queue)
             EXCEPT !.m.delete_queue = <<>>]

\* _should_trigger_rescan and _perform_periodic_rescan
periodic_rescan(m, cfg, src) ==
    IF cfg.rescan_ticks <= 0 THEN m
    ELSE IF m.since_rescan = NoValue THEN [m EXCEPT !.since_rescan = 0]
    ELSE IF m.since_rescan + 1 >= cfg.rescan_ticks
    THEN [register_each(m, src, PathSeq) EXCEPT !.since_rescan = 0]
    ELSE [m EXCEPT !.since_rescan = @ + 1]

\* enforce_retention after a copy: the count pass deletes all but the
\* newest backups and pops their keys; the index is not passed to it
retention_after_copy(w, cfg) ==
    LET found == InOrder(w.m.sync_history, w.dst)
        over  == Len(found) - cfg.retention
        gone  == IF cfg.retention_mode = "count" /\ cfg.retention > 0
                    /\ over > 0
                 THEN {found[i] : i \in 1..over} ELSE {}
    IN  [m |-> [w.m EXCEPT !.sync_history =
                               SelectSeq(@, LAMBDA k : k \notin gone)],
         dst |-> [p \in MirrorPaths |->
                     IF p \in gone THEN NoValue ELSE w.dst[p]]]

\* _process_pending_files: a pending file leaves the queue uncopied
drop_entry(w, p, size) ==
    [w EXCEPT !.m = [remove_queue_bytes(w.m, size)
                        EXCEPT !.pending_files[p] = NotPending]]

\* _process_pending_files: the file changed since it was last looked at
restart_settle(w, p, size) ==
    LET delta == size - w.m.pending_files[p].last_size
        sized == IF delta > 0 THEN add_queue_bytes(w.m, delta)
                 ELSE remove_queue_bytes(w.m, 0 - delta)
    IN  [w EXCEPT !.m = [sized EXCEPT !.pending_files[p] =
                                        [last_size |-> size, age |-> 0]]]

\* _process_pending_files: a settled file is copied: status COPYING,
\* copy_backup, the index, _record_sync, the completed bytes, status
\* "Synced", enforce_retention
copy_entry(w, cfg, p, size) ==
    LET stored == [w.m EXCEPT
                      !.existing_backups[p] = size,
                      !.sync_history =
                          Append(SelectSeq(@, LAMBDA k : k # p), p),
                      !.queue_completed_bytes = @ + size,
                      !.batch_copied = @ \/ size > 0,
                      !.pending_files[p] = NotPending]
        synced == [stored EXCEPT
                      !.status.state = "COPYING",
                      !.status.current_file = None,
                      !.status.details = "Synced",
                      !.status.progress_percent =
                          calculate_overall_percent(stored)]
    IN  retention_after_copy([m |-> synced,
                              dst |-> [w.dst EXCEPT ![p] = size]], cfg)

RECURSIVE process_entries(_, _, _, _)
\* the loop of _process_pending_files over the snapshot of the queue
process_entries(w, cfg, src, paths) ==
    IF paths = <<>> THEN w
    ELSE LET p == Head(paths)
             info == w.m.pending_files[p]
             after ==
                 IF ~IsPending(w.m, p) THEN w
                 ELSE IF src[p] = NoValue
                 THEN drop_entry(w, p, info.last_size)
                 ELSE IF src[p] # info.last_size
                 THEN restart_settle(w, p, src[p])
                 ELSE IF info.age < SettleTicks
                 THEN [w EXCEPT !.m.pending_files[p].age = @ + 1]
                 ELSE IF w.m.existing_backups[p] = src[p]
                 THEN drop_entry(w, p, src[p])
                 ELSE copy_entry(w, cfg, p, src[p])
         IN  process_entries(after, cfg, src, Tail(paths))

\* the status of an engine that watches an empty queue
watching(m) ==
    [m EXCEPT !.status.state = "IDLE",
              !.status.current_file = None,
              !.status.progress_percent = calculate_overall_percent(m),
              !.status.details = "Watching for file changes..."]

\* the end of _process_pending_files: the queue has drained
queue_drained(m) ==
    IF HasPending(m) \/ ~m.running THEN m
    ELSE watching(
            IF m.queue_total_bytes > 0
               /\ m.queue_completed_bytes < m.queue_total_bytes
            THEN [m EXCEPT !.queue_completed_bytes = m.queue_total_bytes]
            ELSE m)

\* FileSyncManager._pending_items_snapshot, and the sort of
\* _seed_initial_pending: newest mtime first in count mode with a limit,
\* files of one mtime in either order; the order of registration otherwise
snapshot_orders(cfg, mt) ==
    {o \in SnapshotOrders :
        (cfg.retention_mode = "count" /\ cfg.retention > 0)
           => \A i, j \in 1..NumPaths : i < j => mt[o[i]] >= mt[o[j]]}

\* FileSyncManager._process_pending_files
process_pending_files(w, cfg, src, order) ==
    LET after == process_entries(w, cfg, src, order)
    IN  [after EXCEPT !.m = queue_drained(after.m)]

\* one pass of the loop of run()
run_pass(w, cfg, src, order) ==
    LET drained == [w EXCEPT !.m = drain_event_queue(w.m, src)]
        deleted == process_delete_events(drained, cfg.retention_mode)
        scanned == [deleted EXCEPT
                       !.m = periodic_rescan(deleted.m, cfg, src)]
    IN  IF HasPending(scanned.m)
        THEN process_pending_files(scanned, cfg, src, order)
        ELSE IF scanned.m.status.state \notin {"IDLE", "STOPPED"}
        THEN [scanned EXCEPT !.m = watching(scanned.m)]
        ELSE scanned

\* the worker's loop makes a pass
QTick ==
    /\ mgr.running
    /\ \E order \in snapshot_orders(q_config, q_mtime) :
          LET after == run_pass([m |-> mgr, dst |-> q_dst], q_config,
                                q_src, order)
          IN  /\ mgr' = after.m
              /\ q_dst' = after.dst
    /\ q_seen' = [q_seen EXCEPT !.handled = @ \/ q_seen.deleted]
    /\ UNCHANGED <<q_config, q_src>>
    /\ UNCHANGED outsideQueue

RECURSIVE Repeat(_, _)
\* a path n times
Repeat(p, n) == IF n = 0 THEN <<>> ELSE <<p>> \o Repeat(p, n - 1)

\* a file is created or rewritten with another size; the observer calls
\* on_created / on_modified for it: never, once or twice
SrcWrite(p, size, times) ==
    /\ mgr.running /\ q_seen.events < MaxEvents
    /\ q_src[p] # size
    /\ q_src' = [q_src EXCEPT ![p] = size]
    /\ mgr' = [mgr EXCEPT !.event_queue = @ \o Repeat(p, times)]
    /\ q_seen' = [q_seen EXCEPT !.written = TRUE, !.events = @ + 1]
    /\ UNCHANGED <<q_config, q_dst>>
    /\ UNCHANGED outsideQueue

\* a source file is deleted: on_deleted
SrcDelete(p) ==
    /\ mgr.running /\ q_seen.events < MaxEvents
    /\ q_src[p] # NoValue
    /\ q_src' = [q_src EXCEPT ![p] = NoValue]
    /\ mgr' = queue_delete_event(mgr, q_config.retention_mode, p)
    /\ q_seen' = [q_seen EXCEPT !.deleted = TRUE, !.handled = FALSE,
                                !.events = @ + 1]
    /\ UNCHANGED <<q_config, q_dst>>
    /\ UNCHANGED outsideQueue

\* a source file is moved inside the source root: on_moved queues a file
\* event for the new path and a delete event for the old one
SrcMove(p, to) ==
    /\ mgr.running /\ q_seen.events < MaxEvents
    /\ p # to
    /\ q_src[p] # NoValue
    /\ q_src' = [q_src EXCEPT ![p] = NoValue, ![to] = q_src[p]]
    /\ mgr' = queue_delete_event(queue_file_event(mgr, to),
                                 q_config.retention_mode, p)
    /\ q_seen' = [q_seen EXCEPT !.moved = TRUE, !.events = @ + 1]
    /\ UNCHANGED <<q_config, q_dst>>
    /\ UNCHANGED outsideQueue

\* FileSyncManager.stop
QStop ==
    /\ mgr.running
    /\ mgr' = [mgr EXCEPT !.running = FALSE,
                          !.status.state = "STOPPED",
                          !.status.current_file = None,
                          !.status.progress_percent = 0,
                          !.status.details = "stopped"]
    /\ UNCHANGED <<q_config, q_src, q_dst, q_seen>>
    /\ UNCHANGED outsideQueue

QueueNext ==
    \/ QTick
    \/ \E p \in MirrorPaths :
          \/ \E size \in 0..MaxFileSize : \E times \in 0..2 :
                SrcWrite(p, size, times)
          \/ SrcDelete(p)
          \/ \E to \in MirrorPaths : SrcMove(p, to)
    \/ QStop

SpecQueue == InitQueue /\ [][QueueNext]_vars

(***************************************************************************)
(* The start of that engine: run() validates the paths, lists the          *)
(* backups, applies the retention policy once, starts the observer, seeds  *)
(* the queue from a scan of the source and enters its loop (SpecStart).    *)
(* The source does not change; the destination holds what earlier runs     *)
(* left; stop() is called on an engine in its loop.                        *)
(***************************************************************************)
\* FileSyncManager.__init__
CreatedManager ==
    [NewManager EXCEPT !.running = FALSE, !.status.details = ""]

\* DEFAULT_SCAN_INTERVAL_MINUTES, in ticks
DEFAULT_SCAN_INTERVAL == RescanTicks

\* the interval the engine is built with: _start_sync_manager replaces an
\* interval <= 0 by the default, SyncConfig makes it non-negative
scan_interval(via, interval) ==
    LET given == IF via = "route" /\ interval <= 0
                 THEN DEFAULT_SCAN_INTERVAL ELSE interval
    IN  IF given < 0 THEN 0 ELSE given

StartInit ==
    /\ q_row \in [interval : {0, RescanTicks}, via : {"route", "cli"}]
    /\ q_config \in [retention_mode : {"days", "count", "sync"},
                     retention : {0, 1},
                     rescan_ticks : {scan_interval(q_row.via,
                                                   q_row.interval)}]
    /\ q_src \in [MirrorPaths -> {NoValue} \cup 1..MaxFileSize]
    /\ q_mtime \in [MirrorPaths -> 1..MaxMtime]
    /\ \A p \in MirrorPaths : q_src[p] = NoValue => q_mtime[p] = 1
    /\ q_dst \in [MirrorPaths -> {NoValue} \cup 1..MaxFileSize]
    /\ \E order \in SnapshotOrders :
          mgr = [CreatedManager EXCEPT
                    !.sync_history = InOrder(order, q_dst)]
    /\ q_seen = NothingSeen
    /\ run_pc = "created"

InitStart ==
    /\ EarlierAtRest /\ CliAtRest /\ EditAtRest /\ EnforceAtRest
    /\ ShareAtRest /\ BatchAtRest
    /\ StartInit

\* run(): the cancel signal is cleared, running is set, SCANNING
RunBegin ==
    /\ run_pc = "created"
    /\ mgr' = [mgr EXCEPT !.running = TRUE,
                          !.status.state = "SCANNING",
                          !.status.details = "Watching"]
    /\ run_pc' = "validate"
    /\ UNCHANGED <<q_config, q_src, q_dst, q_seen, q_mtime, q_row>>
    /\ UNCHANGED outsideStart

\* a failed start that leaves running set
failed_start_still_running(m, text) ==
    [m EXCEPT !.status.state = "STOPPED", !.status.details = text]

\* run() gives up: self.running = False, STOPPED with the text
failed_start(m, text) ==
    [m EXCEPT !.running = FALSE,
              !.status.state = "STOPPED",
              !.status.details = text]

\* get_existing_backups: the sizes of the files of the destination
get_existing_backups(dst) == dst

\* validate_paths raises ValueError: STOPPED with its text; otherwise the
\* index of backups is built
RunValidate ==
    /\ run_pc = "validate"
    /\ \E valid \in BOOLEAN :
          IF valid
          THEN /\ mgr' = [mgr EXCEPT
                             !.existing_backups = get_existing_backups(q_dst)]
               /\ run_pc' = "retention"
          ELSE /\ mgr' = failed_start(mgr, "invalid source")
               /\ run_pc' = "invalid"
    /\ UNCHANGED <<q_config, q_src, q_dst, q_seen, q_mtime, q_row>>
    /\ UNCHANGED outsideStart

\* the days pass at the start of a run deletes the backups that have
\* reached their age and pops their keys
initial_days_pass(w, aged) ==
    [m |-> [w.m EXCEPT !.sync_history =
                           SelectSeq(@, LAMBDA k : k \notin aged)],
     dst |-> [p \in MirrorPaths |->
                 IF p \in aged THEN NoValue ELSE w.dst[p]]]

\* enforce_retention once at the start of a run; the index is not passed
\* to it
RunRetention ==
    /\ run_pc = "retention"
    /\ \E aged \in SUBSET {p \in MirrorPaths : q_dst[p] # NoValue} :
          /\ (q_config.retention_mode # "days" \/ q_config.retention <= 0)
                => aged = {}
          /\ LET w == [m |-> mgr, dst |-> q_dst]
                 after == IF q_config.retention_mode = "days"
                          THEN initial_days_pass(w, aged)
                          ELSE retention_after_copy(w, q_config)
             IN  /\ mgr' = after.m
                 /\ q_dst' = after.dst
    /\ run_pc' = "observer"
    /\ UNCHANGED <<q_config, q_src, q_seen, q_mtime, q_row>>
    /\ UNCHANGED outsideStart

\* _start_observer raises: STOPPED with a fixed text
RunObserver ==
    /\ run_pc = "observer"
    /\ \E started \in BOOLEAN :
          IF started
          THEN mgr' = mgr /\ run_pc' = "seed"
          ELSE /\ mgr' = failed_start(mgr, "observer failed")
               /\ run_pc' = "no_observer"
    /\ UNCHANGED <<q_config, q_src, q_dst, q_seen, q_mtime, q_row>>
    /\ UNCHANGED outsideStart

\* the files _seed_initial_pending hands to _register_pending_file: the
\* matching files of the source, in count mode with a limit the first
\* `retention` of them, newest mtime first
seed_paths(cfg, src, order) ==
    LET matches == SelectSeq(order, LAMBDA p : src[p] # NoValue)
    IN  IF cfg.retention_mode = "count" /\ cfg.retention > 0
           /\ Len(matches) > cfg.retention
        THEN SubSeq(matches, 1, cfg.retention)
        ELSE matches

\* _seed_initial_pending, and IDLE when nothing is pending
RunSeed ==
    /\ run_pc = "seed"
    /\ \E order \in snapshot_orders(q_config, q_mtime) :
          LET seeded == register_each(mgr, q_src,
                                      seed_paths(q_config, q_src, order))
          IN  mgr' = IF HasPending(seeded) THEN seeded
                     ELSE [seeded EXCEPT
                              !.status.state = "IDLE",
                              !.status.details =
                                  "Watching for file changes..."]
    /\ run_pc' = "loop"
    /\ UNCHANGED <<q_config, q_src, q_dst, q_seen, q_mtime, q_row>>
    /\ UNCHANGED outsideStart

\* a pass of the loop of run()
StartTick == run_pc = "loop" /\ QTick

\* stop() on the engine in its loop
StartStop == run_pc = "loop" /\ QStop

StartNext ==
    \/ RunBegin
    \/ RunValidate
    \/ RunRetention
    \/ RunObserver
    \/ RunSeed
    \/ StartTick
    \/ StartStop

SpecStart == InitStart /\ [][StartNext]_vars

(***************************************************************************)
(* Claims about the queue, the rescan and the status (SpecQueue)           *)
(***************************************************************************)
RECURSIVE PendingBytes(_, _)
\* the sizes of the pending files of paths 1..n, each once
PendingBytes(m, n) ==
    IF n = 0 THEN 0
    ELSE PendingBytes(m, n - 1)
            + (IF IsPending(m, n) THEN m.pending_files[n].last_size ELSE 0)

\* the bytes of the queue that are not completed are those of the pending
\* files, each path once
SizeCountedOnce ==
    mgr.queue_total_bytes - mgr.queue_completed_bytes
        = PendingBytes(mgr, NumPaths)

\* a source file has no mirror of its size on the destination
NoMirror(p) == q_src[p] # NoValue /\ q_dst[p] # q_src[p]

\* the pass the worker makes now runs the periodic rescan
RescanPass ==
    /\ QTick
    /\ q_config.rescan_ticks > 0
    /\ mgr.since_rescan # NoValue
    /\ mgr.since_rescan + 1 >= q_config.rescan_ticks

\* the pass the worker makes now finds the pending file of p unchanged and
\* settled
SettledPass(p) ==
    /\ QTick
    /\ IsPending(mgr, p)
    /\ mgr.pending_files[p].last_size = q_src[p]
    /\ mgr.pending_files[p].age >= SettleTicks

\* a rescan leaves every source file without a mirror pending or copied
RescanRegisters ==
    [][RescanPass => \A p \in MirrorPaths :
          NoMirror(p) => (IsPending(mgr', p) \/ q_dst'[p] = q_src[p])]_vars

\* a pending file that is settled is copied by the next pass: it leaves
\* the queue and the index has its size
SettledIsCopied ==
    [][\A p \in MirrorPaths :
          SettledPass(p) => /\ ~IsPending(mgr', p)
                            /\ mgr'.existing_backups[p] = q_src[p]]_vars

\* C24: with periodic rescan enabled, a matching source file whose
\* create/modify event was missed by the observer, that stays unchanged
\* and has no mirror of the same size on the destination, is eventually
\* registered as pending and copied by a running engine; observing the
\* same path several times (events and rescans) yields exactly one pending
\* entry and counts its size once in queue_total_bytes.
C24_RescanCatchesMissed ==
    []SizeCountedOnce /\ RescanRegisters /\ SettledIsCopied

\* the rescan asks the index, not the destination: a source file whose
\* size the index does not hold is registered by it
NotIndexed(p) == q_src[p] # NoValue /\ mgr.existing_backups[p] # q_src[p]
RescanRegistersUnindexed ==
    [][RescanPass => \A p \in MirrorPaths :
          NotIndexed(p) => (IsPending(mgr', p)
                            \/ mgr'.existing_backups[p] = q_src[p])]_vars

\* the destination tree, the history map and the index of backups stay
\* as they are
BackupsKept ==
    /\ q_dst' = q_dst
    /\ mgr'.sync_history = mgr.sync_history
    /\ mgr'.existing_backups = mgr.existing_backups

\* the engine keeps backups without mirroring deletions
KeepsBackups == q_config.retention_mode \in {"days", "count"}

\* C28 as stated: when retention_mode is days or count, source-side delete
\* and move events never change the destination tree, the history map or
\* the existing-backups index: they are discarded without effect.
C28_DeleteAndMoveDiscarded ==
    [][(KeepsBackups /\ ~q_seen.written) => BackupsKept]_vars

\* C28, amended: when retention_mode is days or count, a delete event, of
\* a deletion or of the old path of a move, is discarded when it is
\* raised: the delete queue stays empty, and while the source only loses
\* files the destination tree, the history map and the index stay as they
\* are. (The new path of a move is queued as a file event and copied.)
C28_DeleteEventsDiscarded ==
    /\ [][KeepsBackups => mgr'.delete_queue = <<>>]_vars
    /\ [][(KeepsBackups /\ ~q_seen.written /\ ~q_seen.moved)
             => BackupsKept]_vars

\* a days or count engine has made a pass after a deletion, and the backup
\* of a file that is gone from the source is still there
C28_Witness ==
    /\ KeepsBackups
    /\ mgr.running
    /\ q_seen.deleted /\ q_seen.handled
    /\ ~q_seen.written /\ ~q_seen.moved
    /\ \E p \in MirrorPaths :
          /\ q_src[p] = NoValue
          /\ q_dst[p] # NoValue
          /\ mgr.existing_backups[p] = q_dst[p]

\* the pending queue becomes empty and the engine still runs
QueueEmpties == HasPending(mgr) /\ ~HasPending(mgr') /\ mgr'.running

\* a file is registered into the empty queue
QueueFills == ~HasPending(mgr) /\ HasPending(mgr')

SeedStep == run_pc = "seed" /\ run_pc' = "loop"

PendingSet(m) == {p \in MirrorPaths : IsPending(m, p)}

\* the source files with a newer mtime than that of p
NewerThan(p) ==
    {r \in MirrorPaths : q_src[r] # NoValue /\ q_mtime[r] > q_mtime[p]}

CountLimited == q_config.retention_mode = "count" /\ q_config.retention > 0

\* in count mode with a limit the seed registers at most `retention`
\* files, each among the `retention` newest of the source
SeedCapped ==
    [][(SeedStep /\ CountLimited) =>
          /\ Cardinality(PendingSet(mgr')) <= q_config.retention
          /\ \A p \in PendingSet(mgr') :
                Cardinality(NewerThan(p)) < q_config.retention]_vars

\* otherwise it registers every source file that has no mirror of its size
SeedWhole ==
    [][(SeedStep /\ ~CountLimited) =>
          PendingSet(mgr') = {p \in MirrorPaths : NoMirror(p)}]_vars

\* C31: in count mode with retention_value = N > 0, the initial scan at
\* run() registers as pending at most N source files, and those are the N
\* matching source files with the newest mtime; in days and sync mode every
\* matching source file not already mirrored with the same size is
\* registered.
C31_SeedNewestOnly == SeedCapped /\ SeedWhole

\* run() has returned before its loop
StartFailed == run_pc \in {"invalid", "no_observer"}

\* the engine is stopped with the text of the failure and an empty queue
StoppedWithFailure ==
    StartFailed =>
       /\ ~mgr.running
       /\ mgr.status.state = "STOPPED"
       /\ mgr.status.details =
             (IF run_pc = "invalid" THEN "invalid source"
              ELSE "observer failed")
       /\ ~HasPending(mgr)
       /\ mgr.queue_total_bytes = 0 /\ mgr.queue_completed_bytes = 0
       /\ mgr.event_queue = <<>>

\* up to the seed no step writes a backup or a history key, and the step
\* that gives up changes nothing but the engine's flags and status
NothingCopiedBefore ==
    [][run_pc \notin {"seed", "loop"} =>
          /\ \A p \in MirrorPaths : q_dst'[p] \in {q_dst[p], NoValue}
          /\ \A i \in 1..Len(mgr'.sync_history) :
                \E j \in 1..Len(mgr.sync_history) :
                   mgr.sync_history[j] = mgr'.sync_history[i]
          /\ mgr'.status.state # "COPYING"
          /\ StartFailed' => (q_dst' = q_dst
                                /\ mgr'.sync_history = mgr.sync_history
                                /\ mgr'.existing_backups
                                      = mgr.existing_backups)]_vars

\* C35: if run() finds the source root invalid, or the observer fails to
\* start, the engine ends with state STOPPED, running = false and the
\* failure text in details, without registering any pending file,
\* acquiring a copy slot or copying anything.
C35_FailedStartStops == []StoppedWithFailure /\ NothingCopiedBefore

\* the observer failed to start on an engine that had a file to copy
C35_Witness ==
    /\ run_pc = "no_observer"
    /\ mgr.status.state = "STOPPED"
    /\ \E p \in MirrorPaths :
          q_src[p] # NoValue /\ mgr.existing_backups[p] # q_src[p]

\* the source files that have their mirror
Mirrored == {p \in MirrorPaths : q_src[p] # NoValue /\ q_dst[p] = q_src[p]}

SourceFiles == {p \in MirrorPaths : q_src[p] # NoValue}

\* n of the mirrored source files are the newest of the source
NewestMirrored(n) ==
    \E S \in SUBSET Mirrored :
       /\ Cardinality(S) = n
       /\ \A p \in S : \A r \in SourceFiles \ S : q_mtime[p] >= q_mtime[r]

\* the engine is in its loop, idle, with an empty queue
IdleInLoop ==
    /\ run_pc = "loop"
    /\ mgr.running
    /\ ~HasPending(mgr)
    /\ mgr.event_queue = <<>>
    /\ mgr.status.state = "IDLE"

\* C40: in count mode with retention_value = N > 0 and a source holding
\* more than N matching files, whenever the engine is idle with an empty
\* queue (after the initial seed and after any later periodic rescan) the
\* destination holds the mirrors of the N matching source files with the
\* newest mtime, never an older source file in place of a newer one.
C40_NewestKept ==
    (IdleInLoop /\ CountLimited
        /\ Cardinality(SourceFiles) > q_config.retention)
       => NewestMirrored(q_config.retention)

\* the pass made now ran _perform_periodic_rescan: the time of the last
\* rescan is set anew
Rescanned ==
    /\ run_pc = "loop" /\ QTick
    /\ mgr.since_rescan # NoValue
    /\ mgr'.since_rescan = 0

\* C32: for a configuration whose scan_interval_minutes is 0, the engine
\* started for it never performs a periodic full rescan; for a positive
\* interval the first rescan happens no earlier than one interval after
\* the engine loop starts and later rescans are at least one interval
\* apart.
C32_RescanInterval ==
    [][Rescanned => /\ q_row.interval > 0
                    /\ mgr.since_rescan + 1 >= q_row.interval]_vars

\* the same of the engine main() builds
RescanIntervalCli ==
    [][(Rescanned /\ q_row.via = "cli")
          => /\ q_row.interval > 0
             /\ mgr.since_rescan + 1 >= q_row.interval]_vars

(***************************************************************************)
(* SpecShare: engine instances on one source root.  Each has the thread    *)
(* of its run() and a thread that calls its stop(); what they publish is   *)
(* the state of the status and the configuration id its details name.      *)
(* Instance Restarted is started by update_sync_config for configuration   *)
(* 1 once stop() of instance 1 returned, whether the thread of instance 1  *)
(* ended within the join timeout or not.                                   *)
(***************************************************************************)
Publish(state, blocker) == [state |-> state, blocker |-> blocker]

\* mutant of _on_waiting_for_slot: the details name the next candidate
on_waiting_names_candidate(config_id, active_id, candidate) ==
    Publish("WAITING",
            IF candidate # None /\ candidate # config_id THEN candidate
            ELSE None)

\* FileSyncManager._on_waiting_for_slot once the throttle let it through:
\* the status it publishes
on_waiting_for_slot(config_id, active_id, candidate) ==
    LET blocker == IF active_id # None /\ active_id # config_id
                   THEN active_id ELSE candidate
    IN  Publish("WAITING",
                IF blocker # None /\ blocker # config_id THEN blocker
                ELSE None)

\* mutant: the status update that follows the acquire is left out
starting_copy_silent(pub) == pub

\* the status update that follows a successful _acquire_copy_slot
starting_copy(pub) == Publish("COPYING", None)

\* stop_event.is_set() of an instance
sh_cancelled(i) == sh_stop[i] # "idle"

\* the instance's pc after one entry of the pass was dealt with
after_entry(left) == IF left > 0 THEN "entry" ELSE "endpass"

ShareInit ==
    /\ sh_lane = NewLane
    /\ sh_pc = [i \in Instances |-> "created"]
    /\ sh_stop = [i \in Instances |-> "idle"]
    /\ sh_running = [i \in Instances |-> FALSE]
    /\ sh_pub = [i \in Instances |-> Publish("IDLE", None)]
    /\ sh_todo \in [Instances -> 1..MaxShareFiles]
    /\ sh_result = [i \in Instances |-> "none"]
    /\ sh_notice = [i \in Instances |-> FALSE]
    /\ sh_held = {}

InitShare ==
    /\ EarlierAtRest /\ CliAtRest /\ EditAtRest /\ EnforceAtRest
    /\ QueueAtRest /\ StartAtRest /\ BatchAtRest
    /\ ShareInit

\* run() up to its loop: the files of the seed are pending, SCANNING
ShRun(i) ==
    /\ sh_pc[i] = "created"
    /\ i = Restarted => sh_stop[1] = "done"
    /\ sh_running' = [sh_running EXCEPT ![i] = TRUE]
    /\ sh_pub' = [sh_pub EXCEPT ![i] = Publish("SCANNING", None)]
    /\ sh_pc' = [sh_pc EXCEPT ![i] = "loop"]
    /\ UNCHANGED <<sh_lane, sh_stop, sh_todo, sh_result, sh_notice, sh_held>>
    /\ UNCHANGED outsideShare

\* a pass of the loop with pending files begins
ShPass(i) ==
    /\ sh_pc[i] = "loop" /\ sh_running[i] /\ sh_todo[i] > 0
    /\ sh_pc' = [sh_pc EXCEPT ![i] = "entry"]
    /\ UNCHANGED <<sh_lane, sh_stop, sh_running, sh_pub, sh_todo, sh_result,
                   sh_notice, sh_held>>
    /\ UNCHANGED outsideShare

\* what a pass of the loop of _CopyLane.acquire leaves: r is the lane and
\* the outcome, elapsed whether a second went by since the last notice
ShAfterAcquire(i, r, elapsed) ==
    /\ sh_lane' = r.lane
    /\ sh_pc' = [sh_pc EXCEPT ![i] =
                    CASE r.out = "true" -> "acquired"
                      [] r.out = "false" -> "endpass"
                      [] OTHER -> "waiting"]
    /\ sh_held' = IF r.out = "true" THEN sh_held \cup {i} ELSE sh_held
    /\ sh_todo' = IF r.out = "false" THEN [sh_todo EXCEPT ![i] = @ - 1]
                  ELSE sh_todo
    /\ IF r.out = "wait" /\ (~sh_notice[i] \/ elapsed)
       THEN /\ sh_notice' = [sh_notice EXCEPT ![i] = TRUE]
            /\ sh_pub' = [sh_pub EXCEPT ![i] =
                   on_waiting_for_slot(config_id_of(i), r.lane.active_id,
                                       next_candidate(r.lane))]
       ELSE UNCHANGED <<sh_notice, sh_pub>>
    /\ UNCHANGED <<sh_stop, sh_running, sh_result>>
    /\ UNCHANGED outsideShare

\* _acquire_copy_slot for the next settled entry
ShAcquire(i) ==
    /\ sh_pc[i] = "entry"
    /\ ShAfterAcquire(i, acquire_enter(sh_lane, config_id_of(i),
                                       sh_cancelled(i)), TRUE)

\* the wait of acquire timed out or was notified: one more pass
ShWake(i) ==
    /\ sh_pc[i] = "waiting"
    /\ \E elapsed \in BOOLEAN :
         ShAfterAcquire(i, acquire_pass(sh_lane, config_id_of(i),
                                        sh_cancelled(i)), elapsed)

\* the COPYING update before copy_backup
ShStartCopy(i) ==
    /\ sh_pc[i] = "acquired"
    /\ sh_pub' = [sh_pub EXCEPT ![i] = starting_copy(@)]
    /\ sh_pc' = [sh_pc EXCEPT ![i] = "copying"]
    /\ UNCHANGED <<sh_lane, sh_stop, sh_running, sh_todo, sh_result,
                   sh_notice, sh_held>>
    /\ UNCHANGED outsideShare

\* _progress_callback, called by copy_backup after a chunk
ShProgress(i) ==
    /\ sh_pc[i] = "copying"
    /\ sh_pub' = [sh_pub EXCEPT ![i] = Publish("COPYING", None)]
    /\ UNCHANGED <<sh_lane, sh_pc, sh_stop, sh_running, sh_todo, sh_result,
                   sh_notice, sh_held>>
    /\ UNCHANGED outsideShare

\* copy_backup ends: it returns the path or None, or raises CopyCancelled,
\* which it does only when the stop event is set
ShCopy(i) ==
    /\ sh_pc[i] = "copying"
    /\ \E result \in {"ok", "failed", "cancelled"} :
         /\ result = "cancelled" => sh_cancelled(i)
         /\ sh_result' = [sh_result EXCEPT ![i] = result]
    /\ sh_pc' = [sh_pc EXCEPT ![i] = "finally"]
    /\ UNCHANGED <<sh_lane, sh_stop, sh_running, sh_pub, sh_todo, sh_notice,
                   sh_held>>
    /\ UNCHANGED outsideShare

\* the finally of the copy: _release_copy_slot; a copy that failed or was
\* cancelled is over for this entry
ShFinally(i) ==
    /\ sh_pc[i] = "finally"
    /\ sh_lane' = lane_release(sh_lane, config_id_of(i))
    /\ sh_notice' = [sh_notice EXCEPT ![i] = FALSE]
    /\ sh_held' = sh_held \ {i}
    /\ sh_todo' = IF sh_result[i] = "ok" THEN sh_todo
                  ELSE [sh_todo EXCEPT ![i] = @ - 1]
    /\ sh_pc' = [sh_pc EXCEPT ![i] =
                    CASE sh_result[i] = "ok" -> "synced"
                      [] sh_result[i] = "cancelled" -> "endpass"
                      [] OTHER -> after_entry(sh_todo[i] - 1)]
    /\ UNCHANGED <<sh_stop, sh_running, sh_pub, sh_result>>
    /\ UNCHANGED outsideShare

\* the "Synced: ..." update after a copy that returned the path
ShSynced(i) ==
    /\ sh_pc[i] = "synced"
    /\ sh_pub' = [sh_pub EXCEPT ![i] = Publish("COPYING", None)]
    /\ sh_todo' = [sh_todo EXCEPT ![i] = @ - 1]
    /\ sh_pc' = [sh_pc EXCEPT ![i] = after_entry(sh_todo[i] - 1)]
    /\ UNCHANGED <<sh_lane, sh_stop, sh_running, sh_result, sh_notice,
                   sh_held>>
    /\ UNCHANGED outsideShare

\* the end of _process_pending_files: IDLE when nothing is left and the
\* engine runs
ShEndPass(i) ==
    /\ sh_pc[i] = "endpass"
    /\ sh_pub' = IF sh_todo[i] = 0 /\ sh_running[i]
                 THEN [sh_pub EXCEPT ![i] = Publish("IDLE", None)]
                 ELSE sh_pub
    /\ sh_pc' = [sh_pc EXCEPT ![i] = "loop"]
    /\ UNCHANGED <<sh_lane, sh_stop, sh_running, sh_todo, sh_result,
                   sh_notice, sh_held>>
    /\ UNCHANGED outsideShare

\* the loop of run() ends; its finally: running = False, _abandon_copy_slot
ShExit(i) ==
    /\ sh_pc[i] = "loop" /\ ~sh_running[i]
    /\ sh_lane' = lane_abandon(sh_lane, config_id_of(i))
    /\ sh_notice' = [sh_notice EXCEPT ![i] = FALSE]
    /\ sh_held' = sh_held \ {i}
    /\ sh_pc' = [sh_pc EXCEPT ![i] = "stopping"]
    /\ UNCHANGED <<sh_stop, sh_running, sh_pub, sh_todo, sh_result>>
    /\ UNCHANGED outsideShare

\* the last statement of run(): STOPPED, "Sync stopped"
ShExitPublish(i) ==
    /\ sh_pc[i] = "stopping"
    /\ sh_pub' = [sh_pub EXCEPT ![i] = Publish("STOPPED", None)]
    /\ sh_pc' = [sh_pc EXCEPT ![i] = "exited"]
    /\ UNCHANGED <<sh_lane, sh_stop, sh_running, sh_todo, sh_result,
                   sh_notice, sh_held>>
    /\ UNCHANGED outsideShare

\* stop(): self._stop_event.set()
ShStopEvent(i) ==
    /\ sh_pc[i] # "created" /\ sh_stop[i] = "idle"
    /\ Cardinality({j \in Instances : sh_stop[j] # "idle"}) < MaxStops
    /\ sh_stop' = [sh_stop EXCEPT ![i] = "event"]
    /\ UNCHANGED <<sh_lane, sh_pc, sh_running, sh_pub, sh_todo, sh_result,
                   sh_notice, sh_held>>
    /\ UNCHANGED outsideShare

\* stop(): self.running = False
ShStopRunning(i) ==
    /\ sh_stop[i] = "event"
    /\ sh_stop' = [sh_stop EXCEPT ![i] = "halted"]
    /\ sh_running' = [sh_running EXCEPT ![i] = FALSE]
    /\ UNCHANGED <<sh_lane, sh_pc, sh_pub, sh_todo, sh_result, sh_notice,
                   sh_held>>
    /\ UNCHANGED outsideShare

\* stop(): self._abandon_copy_slot()
ShStopAbandon(i) ==
    /\ sh_stop[i] = "halted"
    /\ sh_stop' = [sh_stop EXCEPT ![i] = "abandoned"]
    /\ sh_lane' = lane_abandon(sh_lane, config_id_of(i))
    /\ sh_notice' = [sh_notice EXCEPT ![i] = FALSE]
    /\ sh_held' = sh_held \ {i}
    /\ UNCHANGED <<sh_pc, sh_running, sh_pub, sh_todo, sh_result>>
    /\ UNCHANGED outsideShare

\* stop(): the STOPPED update, "Stopping..."
ShStopPublish(i) ==
    /\ sh_stop[i] = "abandoned"
    /\ sh_stop' = [sh_stop EXCEPT ![i] = "done"]
    /\ sh_pub' = [sh_pub EXCEPT ![i] = Publish("STOPPED", None)]
    /\ UNCHANGED <<sh_lane, sh_pc, sh_running, sh_todo, sh_result, sh_notice,
                   sh_held>>
    /\ UNCHANGED outsideShare

ShareNext ==
    \E i \in Instances :
        \/ ShRun(i)
        \/ ShPass(i)
        \/ ShAcquire(i)
        \/ ShWake(i)
        \/ ShStartCopy(i)
        \/ ShProgress(i)
        \/ ShCopy(i)
        \/ ShFinally(i)
        \/ ShSynced(i)
        \/ ShEndPass(i)
        \/ ShExit(i)
        \/ ShExitPublish(i)
        \/ ShStopEvent(i)
        \/ ShStopRunning(i)
        \/ ShStopAbandon(i)
        \/ ShStopPublish(i)

SpecShare == InitShare /\ [][ShareNext]_vars

(***************************************************************************)
(* Claims on SpecShare                                                     *)
(***************************************************************************)
\* the two engines of the claims: configurations 1 and 2, no restart
SharingEngines == Instances \ {Restarted}

\* the engines whose published state is COPYING
PublishedCopying == {i \in SharingEngines : sh_pub[i].state = "COPYING"}

AtMostOneCopying == Cardinality(PublishedCopying) <= 1

\* an engine's published state is COPYING only while it holds the slot
CopyingHoldsSlot ==
    \A i \in PublishedCopying :
        i \in sh_held /\ sh_lane.active_id = config_id_of(i)

\* C34: of two engines sharing a source root at most one has the published
\* state COPYING at any instant: an engine's published state is COPYING
\* only while it holds the slot of its lane.
C34_OneCopying == AtMostOneCopying /\ CopyingHoldsSlot

\* nobody's stop() was called
NoStopCalled == \A i \in Instances : sh_stop[i] = "idle"

\* what holds in place of C34: an engine that runs copy_backup has the
\* published state COPYING or, a stop() apart, holds the slot
CopyingWhileHeld ==
    NoStopCalled =>
        \A i \in SharingEngines :
            sh_pc[i] \in {"copying", "finally"} =>
                i \in sh_held /\ sh_pub[i].state = "COPYING"

\* B is blocked in acquire and its stop() was not called
BlockedInAcquire(b) == sh_pc[b] = "waiting" /\ sh_stop[b] = "idle"

\* A and B are the two engines of the lane: no engine of a third
\* configuration was started on it (behind a third engine B waits for its
\* turn, next_candidate, and its details name the holder of its last
\* notice)
LaneOfTwo(a, b) ==
    \A k \in Instances :
        config_id_of(k) \notin {config_id_of(a), config_id_of(b)}
            => sh_pc[k] = "created"

\* while A holds the slot and B is blocked, B shows WAITING and names A
WaitingNamesHolder ==
    \A a, b \in SharingEngines :
        (/\ a # b /\ LaneOfTwo(a, b)
         /\ sh_lane.active_id = config_id_of(a) /\ BlockedInAcquire(b))
            => sh_pub[b] = Publish("WAITING", config_id_of(a))

\* the step that frees the slot A held leaves B, blocked, the one whose
\* next pass of acquire takes the slot
ReleaseLetsIn ==
    [][\A a, b \in SharingEngines :
         (/\ a # b
          /\ sh_lane.active_id = config_id_of(a)
          /\ sh_lane'.active_id = None
          /\ LaneOfTwo(a, b)
          /\ BlockedInAcquire(b) /\ sh_stop'[b] = "idle")
            => acquire_pass(sh_lane', config_id_of(b), FALSE).out = "true"
      ]_vars

\* from blocked to the copy, B publishes WAITING while it is blocked and
\* then COPYING, and nothing else
AcquiredThenCopying ==
    [][\A b \in SharingEngines :
         (/\ sh_stop'[b] = "idle"
          /\ sh_pc[b] \in {"waiting", "acquired"}
          /\ sh_pub'[b] # sh_pub[b])
            => IF sh_pc[b] = "acquired"
               THEN sh_pub'[b].state = "COPYING"
               ELSE sh_pc'[b] = "waiting" /\ sh_pub'[b].state = "WAITING"
      ]_vars

\* B was blocked before it acquired: until the COPYING update it shows
\* WAITING
AcquiredShowsWaiting ==
    \A b \in SharingEngines :
        (sh_pc[b] = "acquired" /\ sh_stop[b] = "idle" /\ sh_notice[b])
            => sh_pub[b].state = "WAITING"

\* inside copy_backup B shows COPYING
CopyShown ==
    \A b \in SharingEngines :
        (sh_pc[b] = "copying" /\ sh_stop[b] = "idle")
            => sh_pub[b].state = "COPYING"

\* C33: for two engines A and B on one source root, while A holds the slot
\* and B is blocked in acquire (its stop() not called), B's published state
\* is WAITING and its details name A's configuration id; after A released,
\* B's next pass acquires the slot and the state B publishes next is
\* COPYING.
C33_WaitingThenCopying ==
    /\ [](WaitingNamesHolder /\ AcquiredShowsWaiting /\ CopyShown)
    /\ ReleaseLetsIn
    /\ AcquiredThenCopying

\* B waited for A, acquired the slot after A's release and is copying
C33_Witness ==
    /\ sh_pc[2] = "copying" /\ sh_notice[2] /\ sh_stop[2] = "idle"
    /\ sh_pub[2] = Publish("COPYING", None)
    /\ sh_lane.last_served_id = 1 /\ sh_lane.active_id = 2

\* B is blocked while A copies
C33_Blocked ==
    /\ sh_pc[2] = "waiting" /\ sh_pc[1] = "copying"
    /\ sh_pub[2] = Publish("WAITING", 1)

\* a slot an instance holds is freed by its own release or abandon only:
\* a step after which the lane's slot is no longer with its id is one of
\* those
FreedByOwner ==
    [][\A i \in Instances :
         (i \in sh_held /\ sh_lane'.active_id # config_id_of(i))
            => i \notin sh_held'
      ]_vars

\* an instance blocked in acquire, its cancel signal not asserted, is on
\* the lane's list of waiters: off the list it is never the next candidate
\* and no pass of its acquire takes the slot
WaiterKept ==
    \A i \in Instances :
        (sh_pc[i] = "waiting" /\ ~sh_cancelled(i))
            => config_id_of(i) \in Range(sh_lane.waiting)

\* C39: an engine blocked in acquire whose cancel signal is never asserted
\* obtains the slot when every holder releases, and a slot it holds is
\* freed only by its own release or abandon, also while an earlier instance
\* with its configuration id, stopped for a restart, is still shutting down.
C39_SlotKeptAcrossRestart == []WaiterKept /\ FreedByOwner

\* the same for the engines no restart touches
FreedByOwnerNoRestart ==
    [][\A i \in Instances :
         (/\ sh_pc[Restarted] = "created"
          /\ i \in sh_held /\ sh_lane'.active_id # config_id_of(i))
            => i \notin sh_held'
      ]_vars

WaiterKeptNoRestart ==
    sh_pc[Restarted] = "created" => WaiterKept

\* an instance that is off the list of waiters does not get the slot by a
\* pass of its acquire
OffListNeverTakes ==
    [][\A i \in Instances :
         (sh_pc[i] = "waiting" /\ config_id_of(i) \notin Range(sh_lane.waiting))
            => sh_pc'[i] # "acquired"
      ]_vars

(***************************************************************************)
(* SpecBatch: the engine of SpecQueue, its pass entry by entry and its     *)
(* copies chunk by chunk.  A copy may fail where copy_backup can: at the   *)
(* stat of the source, in a read or write, at os.replace, at copystat; the *)
(* stat of the per-file step may raise; stop() runs on a thread of its     *)
(* own.  The engine has a coordinator and nobody else on its lane.  The    *)
(* source changes between two passes.  Retention is off.                   *)
(***************************************************************************)
\* the ways copy_backup returns None
CopyFailures == {"stat", "io", "replace", "copystat"}

\* the ways an entry leaves the queue without a backup: copy_backup
\* returned None, or the per-file step raised
EntryFailures == CopyFailures \cup {"raised"}

\* FileSyncManager._calculate_overall_percent
overall_percent(m, current_copied) ==
    IF m.queue_total_bytes <= 0 THEN 0
    ELSE LET completed_bytes ==
                 m.queue_completed_bytes
                    + (IF current_copied < 0 THEN 0 ELSE current_copied)
             percent == (completed_bytes * 100) \div m.queue_total_bytes
         IN  IF percent > 100 THEN 100 ELSE percent

\* the update before copy_backup
copy_starting(m) ==
    [m EXCEPT !.status.state = "COPYING",
              !.status.current_file = 1,
              !.status.details = "Starting copy",
              !.status.progress_percent = overall_percent(m, 0)]

\* mutant of _progress_callback: the bytes of the current file are left out
progress_callback_batch_only(m, copied_bytes) ==
    [m EXCEPT !.status.state = "COPYING",
              !.status.current_file = 1,
              !.status.details = "copied",
              !.status.progress_percent = overall_percent(m, 0)]

\* FileSyncManager._progress_callback
progress_callback(m, copied_bytes) ==
    [m EXCEPT !.status.state = "COPYING",
              !.status.current_file = 1,
              !.status.details = "copied",
              !.status.progress_percent = overall_percent(m, copied_bytes)]

\* copy_backup: where the copy starts, given the .part it finds
resume_from(part, total_size) ==
    IF part # NoValue /\ part < total_size THEN part ELSE 0

\* mutant: an entry whose copy failed stays in the queue
failed_entry_kept(w, p, size) == [w EXCEPT !.m = remove_queue_bytes(w.m, size)]

\* mutant: the size of a failed copy stays in the total
failed_entry_counted(w, p, size) ==
    [w EXCEPT !.m.pending_files[p] = NotPending]

\* _process_pending_files: copy_backup returned None, or the step raised
failed_entry(w, p, size) == drop_entry(w, p, size)

\* an engine that has mirrored its source and watches it
BatchInit ==
    /\ q_config = [retention_mode |-> "days", retention |-> 0,
                   rescan_ticks |-> 0]
    /\ q_src \in [MirrorPaths -> {NoValue} \cup 1..MaxFileSize]
    /\ q_dst = q_src
    /\ mgr = [NewManager EXCEPT !.existing_backups = q_src,
                                !.sync_history = InOrder(PathSeq, q_src)]
    /\ q_seen = NothingSeen
    /\ BatchAtRest

InitBatch ==
    /\ EarlierAtRest /\ CliAtRest /\ EditAtRest /\ EnforceAtRest
    /\ StartAtRest /\ ShareAtRest
    /\ BatchInit

\* a source file is created or rewritten with another size; the observer
\* queues its event
BWrite(p, size) ==
    /\ b_pc = "loop"
    /\ mgr.running /\ q_seen.events < MaxBatchEvents
    /\ q_src[p] # size
    /\ q_src' = [q_src EXCEPT ![p] = size]
    /\ mgr' = queue_file_event(mgr, p)
    /\ q_seen' = [q_seen EXCEPT !.events = @ + 1]
    /\ UNCHANGED <<q_config, q_dst, batchVars>>
    /\ UNCHANGED outsideBatch

\* a source file is deleted
BDelete(p) ==
    /\ b_pc = "loop"
    /\ mgr.running /\ q_seen.events < MaxBatchEvents
    /\ q_src[p] # NoValue
    /\ q_src' = [q_src EXCEPT ![p] = NoValue]
    /\ mgr' = queue_delete_event(mgr, q_config.retention_mode, p)
    /\ q_seen' = [q_seen EXCEPT !.events = @ + 1]
    /\ UNCHANGED <<q_config, q_dst, batchVars>>
    /\ UNCHANGED outsideBatch

\* a pass of the loop of run() begins: the queues are drained; with files
\* pending _process_pending_files takes its snapshot
BTick ==
    /\ b_pc = "loop" /\ mgr.running /\ b_stop = "idle"
    /\ LET w == [m |-> drain_event_queue(mgr, q_src), dst |-> q_dst]
           deleted == process_delete_events(w, q_config.retention_mode)
           scanned == periodic_rescan(deleted.m, q_config, q_src)
       IN  /\ q_dst' = deleted.dst
           /\ IF HasPending(scanned)
              THEN /\ mgr' = scanned
                   /\ b_pc' = "pass"
                   /\ \E order \in snapshot_orders(q_config, q_mtime) :
                         b_rest' = SelectSeq(order,
                                      LAMBDA p : IsPending(scanned, p))
              ELSE /\ mgr' = IF scanned.status.state \notin {"IDLE", "STOPPED"}
                             THEN watching(scanned) ELSE scanned
                   /\ UNCHANGED <<b_pc, b_rest>>
    /\ UNCHANGED <<q_config, q_src, q_seen, b_copied, b_part, b_stop,
                   b_outcome>>
    /\ UNCHANGED outsideBatch

\* the pass sees that the engine no longer runs: break
BBreak ==
    /\ b_pc = "pass" /\ b_rest # <<>> /\ ~mgr.running
    /\ b_rest' = <<>>
    /\ b_outcome' = "break"
    /\ UNCHANGED <<mgr, q_config, q_src, q_dst, q_seen, b_pc, b_copied,
                   b_part, b_stop>>
    /\ UNCHANGED outsideBatch

\* the per-file step up to the copy: the entry is dropped, goes on
\* settling, or its copy begins with _acquire_copy_slot and the COPYING
\* update; a stat that raises sends the step to the outer except
BEntry ==
    /\ b_pc = "pass" /\ b_rest # <<>> /\ mgr.running
    /\ LET p == Head(b_rest)
           info == mgr.pending_files[p]
           w == [m |-> mgr, dst |-> q_dst]
           Leaves(after, how) ==
               /\ mgr' = after.m
               /\ b_rest' = Tail(b_rest)
               /\ b_outcome' = how
               /\ UNCHANGED b_pc
       IN  \/ Leaves(failed_entry(w, p, info.last_size), "raised")
           \/ /\ q_src[p] = NoValue
              /\ Leaves(drop_entry(w, p, info.last_size), "gone")
           \/ /\ q_src[p] # NoValue /\ q_src[p] # info.last_size
              /\ Leaves(restart_settle(w, p, q_src[p]), "changed")
           \/ /\ q_src[p] = info.last_size /\ info.age < SettleTicks
              /\ Leaves([w EXCEPT !.m.pending_files[p].age = @ + 1],
                        "settling")
           \/ /\ q_src[p] = info.last_size /\ info.age >= SettleTicks
              /\ mgr.existing_backups[p] = q_src[p]
              /\ Leaves(drop_entry(w, p, q_src[p]), "mirrored")
           \/ /\ q_src[p] = info.last_size /\ info.age >= SettleTicks
              /\ mgr.existing_backups[p] # q_src[p]
              /\ IF b_stop # "idle"
                 THEN /\ mgr' = drop_entry(w, p, q_src[p]).m
                      /\ b_rest' = <<>>
                      /\ b_outcome' = "cancelled"
                      /\ UNCHANGED b_pc
                 ELSE /\ mgr' = copy_starting(mgr)
                      /\ b_pc' = "opening"
                      /\ UNCHANGED <<b_rest, b_outcome>>
    /\ UNCHANGED <<q_config, q_src, q_dst, q_seen, b_copied, b_part, b_stop>>
    /\ UNCHANGED outsideBatch

\* copy_backup up to the loop of copy_file_with_progress: the .part is
\* opened for append or truncated, the first progress callback
BOpen ==
    /\ b_pc = "opening"
    /\ LET p == Head(b_rest)
           from == resume_from(b_part[p], q_src[p])
       IN  /\ b_copied' = from
           /\ b_part' = [b_part EXCEPT ![p] = from]
           /\ mgr' = progress_callback(mgr, from)
    /\ b_pc' = "copying"
    /\ UNCHANGED <<q_config, q_src, q_dst, q_seen, b_rest, b_stop, b_outcome>>
    /\ UNCHANGED outsideBatch

\* a chunk is read and written, the cancel signal not set at the check
\* before the read
BChunk ==
    /\ b_pc = "copying" /\ b_stop = "idle"
    /\ b_copied < q_src[Head(b_rest)]
    /\ b_copied' = b_copied + 1
    /\ b_part' = [b_part EXCEPT ![Head(b_rest)] = b_copied + 1]
    /\ b_pc' = "progress"
    /\ UNCHANGED <<mgr, q_config, q_src, q_dst, q_seen, b_rest, b_stop,
                   b_outcome>>
    /\ UNCHANGED outsideBatch

\* the progress callback after a chunk, the cancel signal not set at the
\* check after the write
BProgress ==
    /\ b_pc = "progress"
    /\ mgr' = progress_callback(mgr, b_copied)
    /\ b_pc' = "copying"
    /\ UNCHANGED <<q_config, q_src, q_dst, q_seen, b_rest, b_copied, b_part,
                   b_stop, b_outcome>>
    /\ UNCHANGED outsideBatch

\* a check finds the cancel signal set: CopyCancelled; the handler takes
\* the entry out and breaks
BCancel ==
    /\ b_pc \in {"copying", "progress"} /\ b_stop # "idle"
    /\ LET p == Head(b_rest)
       IN  mgr' = drop_entry([m |-> mgr, dst |-> q_dst], p,
                             mgr.pending_files[p].last_size).m
    /\ b_rest' = <<>>
    /\ b_pc' = "pass"
    /\ b_copied' = 0
    /\ b_outcome' = "cancelled"
    /\ UNCHANGED <<q_config, q_src, q_dst, q_seen, b_part, b_stop>>
    /\ UNCHANGED outsideBatch

\* the read returns nothing, the cancel signal not set at the check before
\* it: the loop of copy_file_with_progress ends, the last progress callback
BEof ==
    /\ b_pc = "copying" /\ b_stop = "idle"
    /\ b_copied = q_src[Head(b_rest)]
    /\ mgr' = progress_callback(mgr, b_copied)
    /\ b_pc' = "finishing"
    /\ UNCHANGED <<q_config, q_src, q_dst, q_seen, b_rest, b_copied, b_part,
                   b_stop, b_outcome>>
    /\ UNCHANGED outsideBatch

\* the copy is complete: os.replace, copystat; the path is returned: index,
\* history, completed bytes, "Synced"
BCopyDone ==
    /\ b_pc = "finishing"
    /\ LET p == Head(b_rest)
           after == copy_entry([m |-> mgr, dst |-> q_dst], q_config, p,
                               q_src[p])
       IN  /\ mgr' = after.m
           /\ q_dst' = after.dst
           /\ b_part' = [b_part EXCEPT ![p] = NoValue]
    /\ b_rest' = Tail(b_rest)
    /\ b_pc' = "pass"
    /\ b_copied' = 0
    /\ b_outcome' = "ok"
    /\ UNCHANGED <<q_config, q_src, q_seen, b_stop>>
    /\ UNCHANGED outsideBatch

\* copy_backup logs an exception and returns None: the stat of the source
\* before the .part is opened, a read or a write, os.replace, or copystat
\* after the .part was renamed to the target
BCopyFail(kind) ==
    /\ kind \in CopyFailures
    /\ kind = "stat" => b_pc = "opening"
    /\ kind = "io" => b_pc \in {"copying", "progress"}
    /\ kind \in {"replace", "copystat"} => b_pc = "finishing"
    /\ LET p == Head(b_rest)
       IN  /\ mgr' = failed_entry([m |-> mgr, dst |-> q_dst], p, q_src[p]).m
           /\ IF kind = "copystat"
              THEN /\ b_part' = [b_part EXCEPT ![p] = NoValue]
                   /\ q_dst' = [q_dst EXCEPT ![p] = q_src[p]]
              ELSE UNCHANGED <<b_part, q_dst>>
    /\ b_rest' = Tail(b_rest)
    /\ b_pc' = "pass"
    /\ b_copied' = 0
    /\ b_outcome' = kind
    /\ UNCHANGED <<q_config, q_src, q_seen, b_stop>>
    /\ UNCHANGED outsideBatch

\* the end of _process_pending_files
BEndPass ==
    /\ b_pc = "pass" /\ b_rest = <<>>
    /\ mgr' = queue_drained(mgr)
    /\ b_pc' = "loop"
    /\ b_outcome' = "none"
    /\ UNCHANGED <<q_config, q_src, q_dst, q_seen, b_rest, b_copied, b_part,
                   b_stop>>
    /\ UNCHANGED outsideBatch

\* stop(): self._stop_event.set()
BStopEvent ==
    /\ b_stop = "idle" /\ b_pc # "exited"
    /\ b_stop' = "event"
    /\ UNCHANGED <<mgr, q_config, q_src, q_dst, q_seen, b_pc, b_rest,
                   b_copied, b_part, b_outcome>>
    /\ UNCHANGED outsideBatch

\* stop(): self.running = False
BStopRunning ==
    /\ b_stop = "event"
    /\ b_stop' = "halted"
    /\ mgr' = [mgr EXCEPT !.running = FALSE]
    /\ UNCHANGED <<q_config, q_src, q_dst, q_seen, b_pc, b_rest, b_copied,
                   b_part, b_outcome>>
    /\ UNCHANGED outsideBatch

\* stop(): the STOPPED update with progress_percent = 0
BStopPublish ==
    /\ b_stop = "halted"
    /\ b_stop' = "done"
    /\ mgr' = [mgr EXCEPT !.status.state = "STOPPED",
                          !.status.current_file = None,
                          !.status.progress_percent = 0,
                          !.status.details = "Stopping..."]
    /\ UNCHANGED <<q_config, q_src, q_dst, q_seen, b_pc, b_rest, b_copied,
                   b_part, b_outcome>>
    /\ UNCHANGED outsideBatch

\* the loop of run() ends; its finally: STOPPED, "Sync stopped"
BExit ==
    /\ b_pc = "loop" /\ (~mgr.running \/ b_stop # "idle")
    /\ mgr' = [mgr EXCEPT !.running = FALSE,
                          !.status.state = "STOPPED",
                          !.status.details = "Sync stopped"]
    /\ b_pc' = "exited"
    /\ UNCHANGED <<q_config, q_src, q_dst, q_seen, b_rest, b_copied, b_part,
                   b_stop, b_outcome>>
    /\ UNCHANGED outsideBatch

BatchNext ==
    \/ \E p \in MirrorPaths :
          \/ \E size \in 0..MaxFileSize : BWrite(p, size)
          \/ BDelete(p)
    \/ BTick
    \/ BBreak
    \/ BEntry
    \/ BOpen
    \/ BChunk
    \/ BProgress
    \/ BCancel
    \/ BEof
    \/ BCopyDone
    \/ \E kind \in CopyFailures : BCopyFail(kind)
    \/ BEndPass
    \/ BStopEvent
    \/ BStopRunning
    \/ BStopPublish
    \/ BExit

SpecBatch == InitBatch /\ [][BatchNext]_vars

(***************************************************************************)
(* Claims on SpecBatch                                                     *)
(***************************************************************************)
\* the step in which a pending file's copy fails or its per-file step
\* raises
FailedStep ==
    /\ b_rest # <<>>
    /\ b_rest' = Tail(b_rest)
    /\ b_outcome' \in EntryFailures

\* what the engine does with the entry in that step
FailureHandled ==
    LET p == Head(b_rest)
        size == mgr.pending_files[p].last_size
    IN  /\ ~IsPending(mgr', p)
        /\ mgr'.queue_total_bytes = mgr.queue_total_bytes - size
        /\ mgr'.sync_history = mgr.sync_history
        /\ mgr'.existing_backups = mgr.existing_backups
        /\ mgr'.running = mgr.running
        /\ b_pc' = "pass"

\* the '.part' of the entry is what it was
PartLeft == b_part'[Head(b_rest)] = b_part[Head(b_rest)]

\* C36: when the copy of a pending file fails (copy_backup returns None or
\* the per-file step raises) the engine takes the file out of pending,
\* subtracts its size from queue_total_bytes, records neither a history
\* entry nor an index entry, leaves its '.part' in place and goes on with
\* the rest of the pass, still running.
C36_FailedCopyDropped == [][FailedStep => FailureHandled /\ PartLeft]_vars

\* the same without the '.part'
FailedCopyHandled == [][FailedStep => FailureHandled]_vars

\* a failure before the '.part' was renamed leaves it in place
FailedBeforeRename ==
    [][FailedStep /\ b_outcome' # "copystat" => PartLeft]_vars

BalancedThroughout ==
    /\ SizeCountedOnce
    /\ 0 <= mgr.queue_completed_bytes
    /\ mgr.queue_completed_bytes <= mgr.queue_total_bytes

ReportedBytes ==
    IF b_pc \in {"copying", "finishing"} THEN b_copied
    ELSE IF b_pc = "progress" THEN b_copied - 1
    ELSE 0

PercentInRange == mgr.status.progress_percent \in 0..100

\* progress_percent is what _calculate_overall_percent gives now, or 0
\* once stop() has published
PercentIsCurrent ==
    \/ mgr.status.progress_percent = overall_percent(mgr, ReportedBytes)
    \/ b_stop = "done" /\ mgr.status.progress_percent = 0

\* C37: in every reachable state of the engine progress_percent is an
\* integer in 0..100 and equals min(100, floor(100 * (queue_completed_bytes
\* + bytes copied of the current file) / queue_total_bytes)) when
\* queue_total_bytes > 0, else 0 (or 0 after stop()).
C37_PercentTracksQueue == PercentInRange /\ PercentIsCurrent

\* the same between two passes only
PercentAtTickEnd == b_pc = "loop" => PercentIsCurrent

\* once stop() has returned and the worker has ended, the percent is 0
ZeroAfterStop ==
    (b_stop = "done" /\ b_pc = "exited") => mgr.status.progress_percent = 0

\* every update that carries progress_percent carries the value of
\* _calculate_overall_percent at that moment, or the 0 of stop() and of
\* _reset_queue_progress
PercentAtUpdate ==
    [][mgr'.status.progress_percent # mgr.status.progress_percent =>
          \/ mgr'.status.progress_percent = 0
          \/ mgr'.status.progress_percent
                = overall_percent(mgr', IF b_pc' \in {"copying", "progress",
                                                     "finishing"}
                                        THEN b_copied' ELSE 0)
      ]_vars

====
